---- MODULE Spec2Model ----
(***************************************************************************)
(* Cross-listing orchestration of buildsbyandy/crosslisting.               *)
(*                                                                         *)
(* The model follows src/standalone_crosslisting_tool.py: the orchestrator *)
(* (cross_list_section, un_cross_list_section), the request layer          *)
(* (CanvasAPIClient._make_request), the audit sink (log_audit_action), the *)
(* post-merge updater (apply_post_crosslist_updates) and the three caller  *)
(* flows (CLI main menu, web routes of src/app.py, desktop confirm flow of *)
(* src/crosslisting_gui.py).  The remote platform holds one child section  *)
(* whose current and original course the mutating calls change.            *)
(***************************************************************************)
EXTENDS Integers, Sequences, FiniteSets, TLC

\* ------------------------------------------------------------------ bounds
NumCourses == 3
NumTerms == 2

Courses == 1..NumCourses
Terms == 1..NumTerms

\* Python None / an absent JSON field, for identifiers.
None == 0

\* ----------------------------------------------------------- configuration
\* CanvasConfig policy defaults (the toggles get_config reads).
require_parent_unpublished == TRUE
forbid_parent_with_students == TRUE
enforce_same_subaccount == FALSE

VARIABLES
    secCourse,      \* remote: the child section's course_id
    secOrig,        \* remote: the child section's nonxlist_course_id (None when absent)
    enforce_same_term, \* config.enforce_same_term of the running process
    pc,             \* position of the running invocation
    action,         \* "none" | "cross_list" | "un_cross_list"
    flow,           \* caller: "none" | "cli" | "web" | "gui"
    valErrs,        \* the caller's validate returned a non-empty error list for the pair
    sbActive,       \* CLI main: sandbox_active computed for the pair
    parent,         \* parent_course_id argument (None for un_cross_list)
    dryRun,         \* dry_run argument
    cur,            \* pre_section course_id (current_course_id / pre_course_id)
    orig,           \* pre_section nonxlist_course_id (original_course_id / pre_nonx)
    pTerm,          \* parent_course enrollment_term_id, until the term check has used it
    pSandbox,       \* is_sandbox_course_name(parent_course name), until sandbox_mode is set
    termsDiffer,    \* both terms non-null and different, as read by this invocation
    sandboxMode,    \* sandbox_mode local of cross_list_section
    upd,            \* locals of apply_post_crosslist_updates
    reqs,           \* requests this invocation made, in call order
    audit,          \* rows appended to the audit CSV since the invocation began
    ret,            \* "none" | "true" | "false" | "raised"
    fnPc,           \* a function checked on its own: "none" | "input" | "done"
    fnIn,           \* its arguments
    fnOut           \* what it returned

vars == <<secCourse, secOrig, enforce_same_term, pc, action, flow, valErrs, sbActive,
          parent, dryRun, cur, orig, pTerm, pSandbox, termsDiffer, sandboxMode,
          upd, reqs, audit, ret, fnPc, fnIn, fnOut>>

remoteVars == <<secCourse, secOrig>>
\* What no step of an operation changes.
fixedVars == <<enforce_same_term, fnPc, fnIn, fnOut>>
\* Everything an operation of the orchestrator or a caller flow works on.
orchVars == <<secCourse, secOrig, enforce_same_term, pc, action, flow, valErrs, sbActive,
              parent, dryRun, cur, orig, pTerm, pSandbox, termsDiffer, sandboxMode,
              upd, reqs, audit, ret>>
callVars == <<action, flow, valErrs, sbActive, parent, dryRun>>

\* ------------------------------------------------------------ request layer
\* What one _make_request call can end in.
ReqOutcomes == {"ok", "http_error", "network_error", "invalid_json",
                "token_api_error", "token_value_error"}

\* The exception _make_request leaves with: every status other than 200/201/204,
\* a network error and an undecodable body become CanvasAPIError; whatever
\* get_token raises passes through unchanged (only HTTPException and OSError
\* are converted), so a ValueError of the token provider stays a ValueError.
Raised(o) ==
    CASE o = "ok" -> "none"
      [] o \in {"http_error", "network_error", "invalid_json", "token_api_error"} -> "CanvasAPIError"
      [] OTHER -> "ValueError"

\* get_token is called before conn.request: a token failure sends nothing.
Sent(o) == o \notin {"token_api_error", "token_value_error"}

\* What became of one request: answered with a success status, failed after it
\* was sent, or never sent.
Status(o) == IF o = "ok" THEN "ok" ELSE IF Sent(o) THEN "error" ELSE "unsent"

Req(method, path, id, o, course) ==
    [method |-> method, path |-> path, id |-> id, status |-> Status(o), course |-> course]

\* The log of the requests this invocation made, in call order.
Wire(method, path, id, o, course) == reqs \o <<Req(method, path, id, o, course)>>

\* A mutating request that reached the platform.
Mutating(r) == r.method \in {"POST", "DELETE", "PUT"} /\ r.status # "unsent"

\* ----------------------------------------------------------------- audit
\* log_audit_action: one CSV row, with the conversions the writer applies.
AuditRow(act, par, result, dry, kind, names, title, childIds, syl, sandbox) ==
    [action |-> act,
     parent_course_id |-> par,
     result |-> result,
     dry_run |-> IF dry THEN "Yes" ELSE "No",
     message |-> [kind |-> kind, names |-> names],
     new_parent_course_title |-> title,
     child_section_ids |-> childIds,
     syllabus_updated |-> syl,
     sandbox_mode |-> sandbox]

YesNo(b) == IF b THEN "Yes" ELSE "No"

\* A row written without the optional post-update fields.
PlainRow(act, par, result, dry, kind, names, sandbox) ==
    AuditRow(act, par, result, dry, kind, names, "", <<>>, "", sandbox)

NoUpd == [code |-> FALSE, markers |-> FALSE, nameChanged |-> FALSE,
          sawChild |-> FALSE, putName |-> FALSE]

\* ------------------------------------------------------------------- Init
\* No operation in progress.
Idle ==
    /\ pc = "idle"
    /\ action = "none"
    /\ flow = "none"
    /\ valErrs = FALSE
    /\ sbActive = FALSE
    /\ parent = None
    /\ dryRun = FALSE
    /\ cur = None
    /\ orig = None
    /\ pTerm = None
    /\ pSandbox = FALSE
    /\ termsDiffer = FALSE
    /\ sandboxMode = FALSE
    /\ upd = NoUpd
    /\ reqs = <<>>
    /\ audit = <<>>
    /\ ret = "none"

Init ==
    /\ secCourse \in Courses
    /\ secOrig \in Courses \cup {None}
    /\ enforce_same_term \in BOOLEAN
    /\ Idle
    /\ fnPc = "none"
    /\ fnIn = <<>>
    /\ fnOut = <<>>

\* The invocation returns r to its caller after appending rows to the audit CSV.
Finish(r, rows) ==
    /\ pc' = "returned"
    /\ ret' = r
    /\ audit' = audit \o rows

\* An exception that no handler of the orchestrator catches leaves the call.
Propagate ==
    /\ pc' = "returned"
    /\ ret' = "raised"
    /\ audit' = audit

\* ------------------------------------------------------ cross_list_section
\* parent_term_id is not None and child_term_id is not None and they differ.
TermsDiffer(pt, ct) == pt # None /\ ct # None /\ pt # ct

\* Variant: the term check left out of the decisions.
XLDecisionNoTermCheck(enforce, differ, sandbox, c, o, p, dry) ==
    IF c = p THEN "noop"
    ELSE IF o # None /\ o # c THEN "already_cross_listed"
    ELSE IF dry THEN "dry_run"
    ELSE "post"

\* Variant: the dry-run stop left out of the decisions.
XLDecisionNoDryRun(enforce, differ, sandbox, c, o, p, dry) ==
    IF enforce /\ differ /\ ~sandbox THEN "term_mismatch"
    ELSE IF c = p THEN "noop"
    ELSE IF o # None /\ o # c THEN "already_cross_listed"
    ELSE "post"

\* The decisions between the course fetches and the POST, in the code's order:
\* term check (relaxed to a warning in sandbox mode), no-op, already
\* cross-listed, dry run.
XLDecision(enforce, differ, sandbox, c, o, p, dry) ==
    IF enforce /\ differ /\ ~sandbox THEN "term_mismatch"
    ELSE IF c = p THEN "noop"
    ELSE IF o # None /\ o # c THEN "already_cross_listed"
    ELSE IF dry THEN "dry_run"
    ELSE "post"

\* Variant: any course the re-fetched section reports counts as verified.
XLVerifiedAnyCourse(postCourse, p) == postCourse # None

\* Variant: the verification accepts without comparing.
XLVerifiedAlways(postCourse, p) == TRUE

\* Post-move verification: post_section course_id == parent_course_id.
XLVerified(postCourse, p) == postCourse = p

\* Variant: only the client's own error type is caught around the updater.
UpdCaughtApiOnly(e) == e = "CanvasAPIError"

\* except Exception around apply_post_crosslist_updates.
UpdCaught(e) == e \in {"CanvasAPIError", "ValueError"}

\* Pre-move guard: get_section; a CanvasAPIError is audited and ends the call.
XL_FetchSection(o) ==
    /\ pc = "xl_fetch_section"
    /\ reqs' = Wire("GET", "section", None, o, IF o = "ok" THEN secCourse ELSE None)
    /\ CASE Raised(o) = "none" ->
              /\ cur' = secCourse
              /\ orig' = secOrig
              /\ pc' = "xl_fetch_parent"
              /\ UNCHANGED <<ret, audit>>
         [] Raised(o) = "CanvasAPIError" ->
              /\ Finish("false", <<PlainRow("cross_list", parent, "error", dryRun,
                                            "fetch_section_failed", {}, "")>>)
              /\ UNCHANGED <<cur, orig>>
         [] OTHER ->
              /\ Propagate
              /\ UNCHANGED <<cur, orig>>
    /\ UNCHANGED <<remoteVars, fixedVars, callVars, pTerm, pSandbox,
                   termsDiffer, sandboxMode, upd>>

\* get_course(parent_course_id): term and name of the parent course.
XL_FetchParent(o, term, sb) ==
    /\ pc = "xl_fetch_parent"
    /\ reqs' = Wire("GET", "course", parent, o, None)
    /\ CASE Raised(o) = "none" ->
              /\ pTerm' = term
              /\ pSandbox' = sb
              /\ pc' = "xl_fetch_child"
              /\ UNCHANGED <<ret, audit>>
         [] Raised(o) = "CanvasAPIError" ->
              /\ Finish("false", <<PlainRow("cross_list", parent, "error", dryRun,
                                            "fetch_course_failed", {}, "")>>)
              /\ UNCHANGED <<pTerm, pSandbox>>
         [] OTHER ->
              /\ Propagate
              /\ UNCHANGED <<pTerm, pSandbox>>
    /\ UNCHANGED <<remoteVars, fixedVars, callVars, cur, orig,
                   termsDiffer, sandboxMode, upd>>

\* get_course(current_course_id), then every check up to the POST.  When the
\* section already sits in the parent, both fetches read the same course.
XL_FetchChild(o, term, sb) ==
    /\ pc = "xl_fetch_child"
    /\ cur = parent => (term = pTerm /\ sb = pSandbox)
    /\ reqs' = Wire("GET", "course", cur, o, None)
    /\ CASE Raised(o) = "none" ->
              LET differ == TermsDiffer(pTerm, term)
                  sandbox == pSandbox \/ sb
                  d == XLDecision(enforce_same_term, differ, sandbox, cur, orig, parent, dryRun)
              IN  /\ termsDiffer' = differ
                  /\ sandboxMode' = sandbox
                  /\ pTerm' = None
                  /\ pSandbox' = FALSE
                  /\ CASE d = "term_mismatch" ->
                            Finish("false", <<PlainRow("cross_list", parent, "error", dryRun,
                                                       "term_mismatch", {}, "No")>>)
                       [] d = "noop" ->
                            Finish("true", <<PlainRow("cross_list", parent, "success", dryRun,
                                                      "noop", {parent}, "")>>)
                       [] d = "already_cross_listed" ->
                            Finish("false", <<PlainRow("cross_list", parent, "error", dryRun,
                                                       "already_cross_listed", {orig, cur}, "")>>)
                       [] d = "dry_run" ->
                            Finish("true", <<PlainRow("cross_list", parent, "success", TRUE,
                                                      "dry_run", {parent}, YesNo(sandbox))>>)
                       [] OTHER ->
                            /\ pc' = "xl_post"
                            /\ UNCHANGED <<ret, audit>>
         [] Raised(o) = "CanvasAPIError" ->
              /\ Finish("false", <<PlainRow("cross_list", parent, "error", dryRun,
                                            "fetch_course_failed", {}, "")>>)
              /\ UNCHANGED <<termsDiffer, sandboxMode, pTerm, pSandbox>>
         [] OTHER ->
              /\ Propagate
              /\ UNCHANGED <<termsDiffer, sandboxMode, pTerm, pSandbox>>
    /\ UNCHANGED <<remoteVars, fixedVars, callVars, cur, orig, upd>>

\* Whether the platform may have carried out a mutating request that ended in o:
\* not when nothing was sent or an error status came back; a success status, a
\* timeout or an unreadable body leave both possible.
MayApply(o) == o \in {"ok", "network_error", "invalid_json"}

\* POST /sections/{child}/crosslist/{parent}.
XL_Post(o, applied) ==
    /\ pc = "xl_post"
    /\ applied => MayApply(o)
    /\ reqs' = Wire("POST", "crosslist", parent, o, None)
    /\ IF applied
       THEN /\ secCourse' = parent
            /\ secOrig' = IF secOrig = None THEN secCourse ELSE secOrig
       ELSE UNCHANGED remoteVars
    /\ CASE Raised(o) = "none" ->
              /\ pc' = "xl_verify"
              /\ UNCHANGED <<ret, audit>>
         [] Raised(o) = "CanvasAPIError" ->
              Finish("false", <<PlainRow("cross_list", parent, "error", FALSE,
                                         "crosslist_failed", {}, YesNo(sandboxMode))>>)
         [] OTHER -> Propagate
    /\ UNCHANGED <<fixedVars, callVars, cur, orig, pTerm, pSandbox,
                   termsDiffer, sandboxMode, upd>>

\* Post-move verification: get_section again and compare with the parent.
XL_Verify(o) ==
    /\ pc = "xl_verify"
    /\ reqs' = Wire("GET", "section", None, o, IF o = "ok" THEN secCourse ELSE None)
    /\ CASE Raised(o) = "none" ->
              IF XLVerified(secCourse, parent)
              THEN /\ pc' = "upd_get_course"
                   /\ UNCHANGED <<ret, audit>>
              ELSE Finish("false", <<PlainRow("cross_list", parent, "error", FALSE,
                                              "verify_failed", {secCourse, parent},
                                              YesNo(sandboxMode))>>)
         [] Raised(o) = "CanvasAPIError" ->
              Finish("false", <<PlainRow("cross_list", parent, "error", FALSE,
                                         "crosslist_failed", {}, YesNo(sandboxMode))>>)
         [] OTHER -> Propagate
    /\ UNCHANGED <<remoteVars, fixedVars, callVars, cur, orig, pTerm, pSandbox,
                   termsDiffer, sandboxMode, upd>>

\* The elements of a sequence.
Range(seq) == {seq[i] : i \in DOMAIN seq}

\* ------------------------------------------- apply_post_crosslist_updates
\* The updater runs inside cross_list_section's try/except Exception: an
\* exception it lets out is replaced by the "nothing applied" result and the
\* merge is still audited as a success.
XLSuccessRow(title, childIds, syl) ==
    AuditRow("cross_list", parent, "success", FALSE, "success", {parent},
             title, childIds, syl, YesNo(sandboxMode))

\* The updater ended in exception e.
UpdFailed(e) ==
    IF UpdCaught(e)
    THEN Finish("true", <<XLSuccessRow("", <<>>, "No")>>)
    ELSE Propagate

\* The updater returned its result dict.
UpdReturned(childIds, syllabus_updated) ==
    Finish("true", <<XLSuccessRow("new_course_name", childIds, YesNo(syllabus_updated))>>)

\* new_course_name and new_course_name != parent_course_name: the composed
\* name is "<code_part>: <existing name>", so it differs from the existing
\* name exactly when code_part (code prefix or suffix parts) is non-empty.
NameChanged(codePrefix, parts) == codePrefix \/ parts

\* The section list holds a merged-in child when the modelled section sits in
\* the parent with an original course other than the parent.
ChildInParent == secCourse = parent /\ secOrig # None /\ secOrig # parent

AfterName(sawChild) == IF sawChild THEN "upd_get_child" ELSE "upd_syllabus"

\* get_course(parent, include syllabus_body): course code and syllabus markers.
Upd_GetCourse(o, code, markers) ==
    /\ pc = "upd_get_course"
    /\ reqs' = Wire("GET", "course", parent, o, None)
    /\ IF Raised(o) = "none"
       THEN /\ upd' = [upd EXCEPT !.code = code, !.markers = markers]
            /\ pc' = "upd_get_sections"
            /\ UNCHANGED <<ret, audit>>
       ELSE /\ UpdFailed(Raised(o))
            /\ UNCHANGED upd
    /\ UNCHANGED <<remoteVars, fixedVars, callVars, cur, orig, pTerm, pSandbox,
                   termsDiffer, sandboxMode>>

\* get_paginated_data(/courses/{parent}/sections): a CanvasAPIError is
\* swallowed by the paginator, which then returns what it has (nothing); the
\* name is composed and compared right after.
Upd_GetSections(o, parts) ==
    /\ pc = "upd_get_sections"
    /\ reqs' = Wire("GET", "sections", parent, o, None)
    /\ IF Raised(o) = "ValueError"
       THEN /\ UpdFailed("ValueError")
            /\ UNCHANGED upd
       ELSE LET saw == Raised(o) = "none" /\ ChildInParent
                changed == NameChanged(upd.code, parts)
            IN  /\ upd' = [upd EXCEPT !.sawChild = saw, !.nameChanged = changed]
                /\ pc' = IF changed THEN "upd_put_name" ELSE AfterName(saw)
                /\ UNCHANGED <<ret, audit>>
    /\ UNCHANGED <<remoteVars, fixedVars, callVars, cur, orig, pTerm, pSandbox,
                   termsDiffer, sandboxMode>>

\* update_course_fields(parent, {"name": new_course_name}).
Upd_PutName(o) ==
    /\ pc = "upd_put_name"
    /\ reqs' = Wire("PUT", "course", parent, o, None)
    /\ IF Raised(o) = "none"
       THEN /\ upd' = [upd EXCEPT !.putName = TRUE]
            /\ pc' = AfterName(upd.sawChild)
            /\ UNCHANGED <<ret, audit>>
       ELSE /\ UpdFailed(Raised(o))
            /\ UNCHANGED upd
    /\ UNCHANGED <<remoteVars, fixedVars, callVars, cur, orig, pTerm, pSandbox,
                   termsDiffer, sandboxMode>>

\* get_course(origin course) for the syllabus list; a CanvasAPIError skips the
\* child (continue), anything else leaves the updater.
Upd_GetChild(o) ==
    /\ pc = "upd_get_child"
    /\ reqs' = Wire("GET", "course", secOrig, o, None)
    /\ IF Raised(o) = "ValueError"
       THEN UpdFailed("ValueError")
       ELSE /\ pc' = "upd_syllabus"
            /\ UNCHANGED <<ret, audit>>
    /\ UNCHANGED <<remoteVars, fixedVars, callVars, cur, orig, pTerm, pSandbox,
                   termsDiffer, sandboxMode, upd>>

\* The marker block is replaced in place and written only when the body
\* changed; without markers the block is appended and always written.
Upd_Syllabus(o, same) ==
    /\ pc = "upd_syllabus"
    /\ same => upd.markers
    /\ LET ids == IF upd.sawChild THEN <<"child">> ELSE <<>>
       IN  IF same
           THEN /\ o = "ok"
                /\ reqs' = reqs
                /\ UpdReturned(ids, FALSE)
           ELSE /\ reqs' = Wire("PUT", "course", parent, o, None)
                /\ IF Raised(o) = "none"
                   THEN UpdReturned(ids, TRUE)
                   ELSE UpdFailed(Raised(o))
    /\ UNCHANGED <<remoteVars, fixedVars, callVars, cur, orig, pTerm, pSandbox,
                   termsDiffer, sandboxMode, upd>>

\* --------------------------------------------------- un_cross_list_section
\* Variant: the post-undo verification accepts without comparing.
UXVerifiedAlways(postCourse, preNonx, preCourse) == TRUE

\* (pre_nonx is not None and post == pre_nonx) or (post != pre_course_id).
UXVerified(postCourse, preNonx, preCourse) ==
    (preNonx # None /\ postCourse = preNonx) \/ postCourse # preCourse

\* Variant: the undo goes on without looking at the original course.
UXDecisionNoNoop(preNonx, dry) == IF dry THEN "dry_run" ELSE "delete"

\* The decisions between the pre-undo fetch and the DELETE: nothing to undo
\* when pre_nonx is None, then the dry run.
UXDecision(preNonx, dry) ==
    IF preNonx = None THEN "noop"
    ELSE IF dry THEN "dry_run"
    ELSE "delete"

\* Pre-undo fetch, the not-cross-listed no-op and the dry run.
UX_FetchSection(o) ==
    /\ pc = "ux_fetch_section"
    /\ reqs' = Wire("GET", "section", None, o, IF o = "ok" THEN secCourse ELSE None)
    /\ CASE Raised(o) = "none" ->
              /\ cur' = secCourse
              /\ orig' = secOrig
              /\ LET d == UXDecision(secOrig, dryRun)
                 IN  CASE d = "noop" ->
                            Finish("true", <<PlainRow("un_cross_list", None, "success", dryRun,
                                                      "noop", {}, "")>>)
                       [] d = "dry_run" ->
                            Finish("true", <<PlainRow("un_cross_list", None, "success", TRUE,
                                                      "dry_run", {}, "")>>)
                       [] OTHER ->
                            /\ pc' = "ux_delete"
                            /\ UNCHANGED <<ret, audit>>
         [] Raised(o) = "CanvasAPIError" ->
              /\ Finish("false", <<PlainRow("un_cross_list", None, "error", dryRun,
                                            "fetch_section_failed", {}, "")>>)
              /\ UNCHANGED <<cur, orig>>
         [] OTHER ->
              /\ Propagate
              /\ UNCHANGED <<cur, orig>>
    /\ UNCHANGED <<remoteVars, fixedVars, callVars, pTerm, pSandbox,
                   termsDiffer, sandboxMode, upd>>

\* DELETE /sections/{id}/crosslist.
UX_Delete(o, applied) ==
    /\ pc = "ux_delete"
    /\ applied => MayApply(o)
    /\ reqs' = Wire("DELETE", "crosslist", None, o, None)
    /\ IF applied
       THEN /\ secCourse' = IF secOrig = None THEN secCourse ELSE secOrig
            /\ secOrig' = None
       ELSE UNCHANGED remoteVars
    /\ CASE Raised(o) = "none" ->
              /\ pc' = "ux_verify"
              /\ UNCHANGED <<ret, audit>>
         [] Raised(o) = "CanvasAPIError" ->
              Finish("false", <<PlainRow("un_cross_list", None, "error", FALSE,
                                         "uncrosslist_failed", {}, "")>>)
         [] OTHER -> Propagate
    /\ UNCHANGED <<fixedVars, callVars, cur, orig, pTerm, pSandbox,
                   termsDiffer, sandboxMode, upd>>

\* Post-undo verification.
UX_Verify(o) ==
    /\ pc = "ux_verify"
    /\ reqs' = Wire("GET", "section", None, o, IF o = "ok" THEN secCourse ELSE None)
    /\ CASE Raised(o) = "none" ->
              IF UXVerified(secCourse, orig, cur)
              THEN Finish("true", <<PlainRow("un_cross_list", None, "success", FALSE,
                                             "success", {}, "")>>)
              ELSE Finish("false", <<PlainRow("un_cross_list", None, "error", FALSE,
                                              "verify_failed", {secCourse, orig, cur}, "")>>)
         [] Raised(o) = "CanvasAPIError" ->
              Finish("false", <<PlainRow("un_cross_list", None, "error", FALSE,
                                         "uncrosslist_failed", {}, "")>>)
         [] OTHER -> Propagate
    /\ UNCHANGED <<remoteVars, fixedVars, callVars, cur, orig, pTerm, pSandbox,
                   termsDiffer, sandboxMode, upd>>

\* --------------------------------------------------------------- validate
\* The policy toggles validate reads from the config.
Config ==
    [require_parent_unpublished |-> require_parent_unpublished,
     forbid_parent_with_students |-> forbid_parent_with_students,
     enforce_same_subaccount |-> enforce_same_subaccount,
     enforce_same_term |-> enforce_same_term]

Opt(cond, msg) == IF cond THEN <<msg>> ELSE <<>>

\* Teacher id sets of both sides non-empty and disjoint.
TeachersDisjoint(p, c) ==
    p.teachers # {} /\ c.teachers # {} /\ p.teachers \cap c.teachers = {}

\* Variant: the student-activity rule fires for every published parent.
StudentActivityIgnoringCount(cfg, p) == cfg.forbid_parent_with_students /\ p.published

\* config.forbid_parent_with_students and total_students > 0 and published.
StudentActivity(cfg, p) ==
    cfg.forbid_parent_with_students /\ p.total_students > 0 /\ p.published

\* The rules of validate_cross_listing_candidates, in the order of the code:
\* whether the rule is violated, and its message.  A row carries the course
\* number extract_course_number yields ("" modelled as None) and whether the
\* course name is a sandbox name.
RuleFindings(cfg, p, c) ==
    << [violated |-> p.cross_listed,
        message |-> "Parent section is already cross-listed"],
       [violated |-> c.cross_listed,
        message |-> "Child section is already cross-listed"],
       [violated |-> p.course_id = c.course_id,
        message |-> "Cannot cross-list sections from the same course"],
       [violated |-> cfg.require_parent_unpublished /\ p.published,
        message |-> "Parent must be unpublished"],
       [violated |-> StudentActivity(cfg, p),
        message |-> "Parent is published and has student activity"],
       [violated |-> ~c.published,
        message |-> "Child course must be published"],
       [violated |-> p.number # None /\ c.number # None /\ p.number # c.number,
        message |-> "Course numbers don't match"],
       [violated |-> cfg.enforce_same_term /\ TermsDiffer(p.term, c.term),
        message |-> "Parent and child must be in the same enrollment term"],
       [violated |-> cfg.enforce_same_subaccount /\ p.subaccount # c.subaccount,
        message |-> "Subaccounts don't match"],
       [violated |-> TeachersDisjoint(p, c),
        message |-> "Teachers must match between parent and child courses"] >>

\* Variant: validation stops at the first violated rule.
FirstErrorOnly(findings) ==
    IF \E k \in DOMAIN findings : findings[k].violated
    THEN LET k == CHOOSE i \in DOMAIN findings :
                      /\ findings[i].violated
                      /\ \A j \in 1..(i - 1) : ~findings[j].violated
         IN  <<findings[k].message>>
    ELSE <<>>

\* errors = []; every rule in turn appends its message when it is violated.
RECURSIVE AppendErrors(_)
AppendErrors(findings) ==
    IF findings = <<>> THEN <<>>
    ELSE Opt(Head(findings).violated, Head(findings).message) \o AppendErrors(Tail(findings))

\* validate_cross_listing_candidates of the CLI tool: one list of errors, every
\* rule evaluated in order.
validate_cross_listing_candidates(cfg, p, c) == AppendErrors(RuleFindings(cfg, p, c))

\* The rows a caller can hold for a course or section: the listing's snapshot,
\* which may differ from what the platform holds now.
FlowRows ==
    [cross_listed : BOOLEAN, course_id : Courses, published : BOOLEAN,
     total_students : {0, 1}, number : {1}, term : Terms, subaccount : {1},
     teachers : {{}}, sandbox : BOOLEAN]

\* What the validate called by the web route and by the desktop flow can hand
\* back as its error list (that validate returns errors and warnings; the
\* callers branch on whether the error list is empty).
ErrorLists == {<<>>, <<"error">>}

\* ----------------------------------------------------------- caller flows
\* A caller enters the orchestrator: its locals and this call's logs start empty.
Enter(act, fl, errs, sb, par, dry, start) ==
    /\ pc = "idle"
    /\ pc' = start
    /\ action' = act
    /\ flow' = fl
    /\ valErrs' = errs
    /\ sbActive' = sb
    /\ parent' = par
    /\ dryRun' = dry
    /\ UNCHANGED <<remoteVars, fixedVars, cur, orig, pTerm, pSandbox,
                   termsDiffer, sandboxMode, upd, reqs, audit, ret>>

\* Variant: the CLI menu goes on to the confirmation whatever validate returned.
CliProceedsAlways(errors, sandbox_active) == TRUE

\* CLI main, choice 1: validation errors stop the flow unless the parent's or
\* the child's course name is a sandbox name ("SOP checks relaxed").
CliProceeds(errors, sandbox_active) == ~(errors # <<>> /\ ~sandbox_active)

\* errors non-empty: the web route renders the error page, the desktop flow
\* shows the error box; neither offers the confirmation.
GateOnErrors(errors) == errors = <<>>

\* CLI main, choice 1: select parent and child, validate, confirm with "y".
Cli_CrossList(p, c, dry) ==
    LET errors == validate_cross_listing_candidates(Config, p, c)
        sandbox_active == p.sandbox \/ c.sandbox
    IN  /\ pc = "idle"
        /\ CliProceeds(errors, sandbox_active)
        /\ Enter("cross_list", "cli", errors # <<>>, sandbox_active, p.course_id, dry,
                 "xl_fetch_section")

\* CLI main, choice 2: only rows listed as cross-listed can be selected.
Cli_UnCrossList(c, dry) ==
    /\ pc = "idle"
    /\ c.cross_listed
    /\ Enter("un_cross_list", "cli", FALSE, FALSE, None, dry, "ux_fetch_section")

\* Web: /validate_crosslist validates the pair and shows the confirmation form
\* only without errors; the form posts the pair to /crosslist.
Web_CrossList(par, errors, dry) ==
    /\ pc = "idle"
    /\ GateOnErrors(errors)
    /\ Enter("cross_list", "web", errors # <<>>, FALSE, par, dry, "xl_fetch_section")

\* Web: /uncrosslist always runs with dry_run=False.
Web_UnCrossList ==
    Enter("un_cross_list", "web", FALSE, FALSE, None, FALSE, "ux_fetch_section")

\* Desktop confirm_crosslisting: the pre-move check (skipped when its fetch
\* fails) ends the flow on a no-op or an already cross-listed section; then
\* validate, the warning dialog and the final confirmation.
Gui_CrossList(par, errors, dry, preOk) ==
    /\ pc = "idle"
    /\ preOk => /\ secCourse # par
                /\ ~(secOrig # None /\ secOrig # secCourse)
    /\ GateOnErrors(errors)
    /\ Enter("cross_list", "gui", errors # <<>>, FALSE, par, dry, "xl_fetch_section")

\* Desktop undo_specific_section: only for a row listed as cross-listed.
Gui_UnCrossList(c, dry) ==
    /\ pc = "idle"
    /\ c.cross_listed
    /\ Enter("un_cross_list", "gui", FALSE, FALSE, None, dry, "ux_fetch_section")

\* The web routes write an audit row of their own after the orchestrator
\* returns; an exception skips it (the route's except Exception).
Web_RouteAudit ==
    /\ pc = "returned"
    /\ flow = "web"
    /\ pc' = "route_done"
    /\ audit' = IF ret = "raised" THEN audit
                ELSE audit \o <<AuditRow(IF action = "cross_list" THEN "crosslist" ELSE "uncrosslist",
                                         parent,
                                         IF ret = "true" THEN "success" ELSE "failed",
                                         dryRun, "web", {parent} \ {None}, "",
                                         IF action = "cross_list" THEN <<"child">> ELSE <<>>,
                                         "", "")>>
    /\ UNCHANGED <<remoteVars, fixedVars, callVars, cur, orig, pTerm, pSandbox,
                   termsDiffer, sandboxMode, upd, reqs, ret>>

\* The caller is done with the result; the next operation starts from idle.
NextOperation ==
    /\ \/ pc = "returned" /\ flow # "web"
       \/ pc = "route_done"
    /\ pc' = "idle"
    /\ action' = "none"
    /\ flow' = "none"
    /\ valErrs' = FALSE
    /\ sbActive' = FALSE
    /\ parent' = None
    /\ dryRun' = FALSE
    /\ cur' = None
    /\ orig' = None
    /\ pTerm' = None
    /\ pSandbox' = FALSE
    /\ termsDiffer' = FALSE
    /\ sandboxMode' = FALSE
    /\ upd' = NoUpd
    /\ reqs' = <<>>
    /\ audit' = <<>>
    /\ ret' = "none"
    /\ UNCHANGED <<remoteVars, fixedVars>>

TermValues == Terms \cup {None}

\* A caller starts an operation.
Call ==
    /\ pc = "idle"
    /\ \/ \E p \in FlowRows, c \in FlowRows, dry \in BOOLEAN : Cli_CrossList(p, c, dry)
       \/ \E c \in FlowRows, dry \in BOOLEAN : Cli_UnCrossList(c, dry)
       \/ \E par \in Courses, errors \in ErrorLists, dry \in BOOLEAN :
               Web_CrossList(par, errors, dry)
       \/ Web_UnCrossList
       \/ \E par \in Courses, errors \in ErrorLists, dry \in BOOLEAN, preOk \in BOOLEAN :
               Gui_CrossList(par, errors, dry, preOk)
       \/ \E c \in FlowRows, dry \in BOOLEAN : Gui_UnCrossList(c, dry)

Next ==
    \/ Call
    \/ \E o \in ReqOutcomes : XL_FetchSection(o)
    \/ \E o \in ReqOutcomes, t \in TermValues, sb \in BOOLEAN : XL_FetchParent(o, t, sb)
    \/ \E o \in ReqOutcomes, t \in TermValues, sb \in BOOLEAN : XL_FetchChild(o, t, sb)
    \/ \E o \in ReqOutcomes, applied \in BOOLEAN : XL_Post(o, applied)
    \/ \E o \in ReqOutcomes : XL_Verify(o)
    \/ \E o \in ReqOutcomes, code \in BOOLEAN, markers \in BOOLEAN : Upd_GetCourse(o, code, markers)
    \/ \E o \in ReqOutcomes, parts \in BOOLEAN : Upd_GetSections(o, parts)
    \/ \E o \in ReqOutcomes : Upd_PutName(o)
    \/ \E o \in ReqOutcomes : Upd_GetChild(o)
    \/ \E o \in ReqOutcomes, same \in BOOLEAN : Upd_Syllabus(o, same)
    \/ \E o \in ReqOutcomes : UX_FetchSection(o)
    \/ \E o \in ReqOutcomes, applied \in BOOLEAN : UX_Delete(o, applied)
    \/ \E o \in ReqOutcomes : UX_Verify(o)
    \/ Web_RouteAudit
    \/ NextOperation

Spec == Init /\ [][Next]_vars

\* ------------------------------------------------------------- properties
\* Vocabulary over the request log and the audit rows of the running call.
Returned == pc = "returned"

NoMutation == \A i \in DOMAIN reqs : ~Mutating(reqs[i])

IsSectionGet(r) == r.method = "GET" /\ r.path = "section"

SentAs(i, method) == reqs[i].method = method /\ reqs[i].status # "unsent"

Posted == \E i \in DOMAIN reqs : SentAs(i, "POST")

\* Request i is a re-fetch of the section, after the first fetch, that
\* answered and reported the requested parent as the section's course.
VerifiedAt(i) ==
    i > 1 /\ IsSectionGet(reqs[i]) /\ reqs[i].status = "ok" /\ reqs[i].course = parent

OneAuditRow(result) == Len(audit) = 1 /\ audit[1].result = result

\* C1 (as stated): a non-dry-run cross_list whose section fetch succeeds and
\* reports the requested parent as current course returns true, makes no
\* mutating request and writes exactly one audit row, success with dry_run No,
\* whatever the other remote reads do.
C1_NoopSucceedsWhateverOtherReadsDo ==
    (Returned /\ action = "cross_list" /\ ~dryRun
        /\ reqs # <<>> /\ reqs[1].status = "ok" /\ reqs[1].course = parent)
    => (ret = "true" /\ NoMutation /\ OneAuditRow("success") /\ audit[1].dry_run = "No")

\* C2 (as stated): a cross_list on a section whose fetched original course is
\* non-null and differs from its current course, towards a parent other than
\* the current course, returns false, makes no mutating request, and its single
\* audit row is an error whose message names the original and the current course.
C2_AlreadyCrossListedNamesBothCourses ==
    (Returned /\ action = "cross_list"
        /\ reqs # <<>> /\ reqs[1].status = "ok"
        /\ orig # None /\ orig # cur /\ parent # cur)
    => (ret = "false" /\ NoMutation /\ OneAuditRow("error")
        /\ {orig, cur} \subseteq audit[1].message.names)

\* C3: a cross_list that sent the POST returns true only if the section
\* re-fetched after the POST reports the requested parent; when the POST was
\* answered with success and the re-fetch reports another course, the call
\* returns false with one audit row of result error.
C3_TrueOnlyWhenRefetchShowsParent ==
    (Returned /\ action = "cross_list" /\ Posted) =>
        /\ ret = "true" => \E i \in DOMAIN reqs : VerifiedAt(i)
        /\ \A i \in DOMAIN reqs :
              (/\ reqs[i].method = "POST" /\ reqs[i].status = "ok"
               /\ i < Len(reqs)
               /\ IsSectionGet(reqs[i + 1]) /\ reqs[i + 1].status = "ok"
               /\ reqs[i + 1].course # parent)
              => (ret = "false" /\ OneAuditRow("error"))

\* C3 witness: the POST was answered with success, the re-fetch reports a
\* course other than the parent, and the call returned false.
C3_VerificationFailedSeen ==
    /\ Returned /\ action = "cross_list" /\ ret = "false"
    /\ Len(reqs) = 5
    /\ reqs[4].method = "POST" /\ reqs[4].status = "ok"
    /\ IsSectionGet(reqs[5]) /\ reqs[5].status = "ok" /\ reqs[5].course # parent
    /\ OneAuditRow("error") /\ audit[1].message.kind = "verify_failed"

\* C4 (as stated): with enforce_same_term set and different non-null terms
\* read for the parent and the child's course, cross_list sends no POST and
\* returns false, whatever else holds of the two courses.
C4_TermMismatchAlwaysBlocks ==
    (action = "cross_list" /\ enforce_same_term /\ termsDiffer)
    => (~Posted /\ (Returned => ret = "false"))

\* C4 (amended): with enforce_same_term set and different non-null terms read,
\* and neither course name a sandbox name, cross_list has returned false with
\* one error row and has sent no POST; the mismatch lets the call go on only
\* in sandbox mode.
C4_TermMismatchBlocksOutsideSandbox ==
    (action = "cross_list" /\ enforce_same_term /\ termsDiffer) =>
        /\ ~sandboxMode => (ret = "false" /\ ~Posted /\ audit # <<>>
                            /\ audit[1].result = "error"
                            /\ audit[1].message.kind = "term_mismatch")
        /\ Posted => sandboxMode

\* C4 witness: a term mismatch outside sandbox mode ended the call.
C4_TermMismatchBlockedSeen ==
    /\ Returned /\ action = "cross_list" /\ enforce_same_term
    /\ termsDiffer /\ ~sandboxMode /\ ret = "false" /\ Len(reqs) = 3

\* The reads of the call succeeded and no check before the dry-run step stopped it.
PreChecksPass ==
    IF action = "cross_list"
    THEN /\ Len(reqs) = 3
         /\ \A i \in 1..3 : reqs[i].status = "ok"
         /\ ~(enforce_same_term /\ termsDiffer /\ ~sandboxMode)
         /\ ~(cur # parent /\ orig # None /\ orig # cur)
    ELSE Len(reqs) = 1 /\ reqs[1].status = "ok"

\* C5: a call with dry_run set never makes a mutating request, in cross_list
\* or un_cross_list; when the reads succeed and no pre-check stops the call,
\* it returns true with one audit row, success with dry_run Yes.
C5_DryRunNeverMutates ==
    dryRun =>
        /\ NoMutation
        /\ (Returned /\ PreChecksPass)
           => (ret = "true" /\ OneAuditRow("success") /\ audit[1].dry_run = "Yes")

\* C5 witness: a dry-run cross_list of a section that would really be moved
\* stopped at the dry-run step.
C5_DryRunStopSeen ==
    /\ Returned /\ dryRun /\ action = "cross_list" /\ cur # parent
    /\ ret = "true" /\ OneAuditRow("success") /\ audit[1].message.kind = "dry_run"

C7_RequestOrder ==
    action = "cross_list" =>
        \A i \in DOMAIN reqs :
            /\ reqs[i].method = "POST"
               => \E j \in 1..(i - 1) : IsSectionGet(reqs[j]) /\ reqs[j].status = "ok"
            /\ (i > 1 /\ IsSectionGet(reqs[i]))
               => \E j \in 1..(i - 1) : SentAs(j, "POST")
            /\ reqs[i].method = "PUT"
               => \E j \in 1..(i - 1) :
                     VerifiedAt(j) /\ \E k \in 1..(j - 1) : SentAs(k, "POST")
            /\ reqs[i].method # "DELETE"

\* C7 witness: a cross_list that went all the way to a content-update PUT.
C7_ContentUpdateSeen ==
    /\ Returned /\ action = "cross_list"
    /\ \E i \in DOMAIN reqs : SentAs(i, "PUT") /\ reqs[i].status = "ok"

\* C8 (as stated): once the POST or the DELETE has been sent, a re-fetch of
\* the section is attempted before the call returns, whatever the response.
C8_VerificationAlwaysAttempted ==
    Returned =>
        \A i \in DOMAIN reqs :
            (SentAs(i, "POST") \/ SentAs(i, "DELETE"))
            => \E j \in (i + 1)..Len(reqs) : IsSectionGet(reqs[j])

\* A request of the orchestrator itself (not of the updater) failed.
OrchestratorCallFailed ==
    \E i \in DOMAIN reqs :
        /\ reqs[i].status # "ok"
        /\ ~\E j \in 1..(i - 1) : VerifiedAt(j)

\* C9 (as stated): whenever a remote call of cross_list or un_cross_list
\* fails (error status, network error, malformed body, no bearer token), the
\* call returns false with an audit row of result error and lets no exception
\* out.
C9_EveryFailureReturnsFalse ==
    (Returned /\ OrchestratorCallFailed)
    => (ret = "false" /\ OneAuditRow("error"))

\* C10: after a verified merge, cross_list returns true with one audit row of
\* result success, whatever the updater did (finished, failed after some
\* updates, or ended in an exception).
C10_UpdaterNeverFailsTheMerge ==
    (Returned /\ action = "cross_list" /\ \E i \in DOMAIN reqs : VerifiedAt(i))
    => (ret = "true" /\ OneAuditRow("success"))

\* C10 witness: the updater renamed the course and then failed; the merge is
\* still returned and audited as a success.
C10_UpdaterFailedAfterRenameSeen ==
    /\ Returned /\ action = "cross_list" /\ ret = "true"
    /\ \E i \in DOMAIN reqs : VerifiedAt(i)
    /\ upd.putName /\ reqs[Len(reqs)].status # "ok"
    /\ OneAuditRow("success") /\ audit[1].syllabus_updated = "No"

\* C11: an un_cross_list whose section fetch succeeds and reports no original
\* course returns true, sends no DELETE and writes one audit row of result
\* success.
C11_UndoOfPlainSectionIsNoop ==
    (Returned /\ action = "un_cross_list"
        /\ reqs # <<>> /\ reqs[1].status = "ok" /\ orig = None)
    => (/\ ret = "true"
        /\ \A i \in DOMAIN reqs : reqs[i].method # "DELETE"
        /\ Len(reqs) = 1
        /\ OneAuditRow("success"))

\* C11 witness: the undo of a section without original course, not a dry run,
\* returned as a no-op.
C11_UndoNoopSeen ==
    /\ Returned /\ action = "un_cross_list" /\ ~dryRun
    /\ reqs # <<>> /\ reqs[1].status = "ok" /\ orig = None
    /\ ret = "true" /\ OneAuditRow("success") /\ audit[1].message.kind = "noop"

\* Request i is the re-fetch after the DELETE and it answered.
RefetchedAt(i) == i > 1 /\ IsSectionGet(reqs[i]) /\ reqs[i].status = "ok"

\* C12: an un_cross_list that sent the DELETE returns true only if the
\* re-fetched section's course equals the pre-call original course or differs
\* from the pre-call current course; when the re-fetch reports the pre-call
\* current course and that is not the original course, the call returns false
\* with one audit row of result error.
C12_UndoTrueOnlyWhenCourseReverted ==
    (Returned /\ action = "un_cross_list" /\ \E i \in DOMAIN reqs : SentAs(i, "DELETE")) =>
        /\ orig # None
        /\ ret = "true"
           => \E i \in DOMAIN reqs :
                 RefetchedAt(i) /\ (reqs[i].course = orig \/ reqs[i].course # cur)
        /\ \A i \in DOMAIN reqs :
              (RefetchedAt(i) /\ reqs[i].course = cur /\ reqs[i].course # orig)
              => (ret = "false" /\ OneAuditRow("error"))

\* C12 witness: the DELETE was answered with success, the re-fetch still
\* reports the pre-call current course, and the call returned false.
C12_UndoVerificationFailedSeen ==
    /\ Returned /\ action = "un_cross_list" /\ ret = "false"
    /\ Len(reqs) = 3 /\ reqs[2].method = "DELETE" /\ reqs[2].status = "ok"
    /\ RefetchedAt(3) /\ reqs[3].course = cur /\ cur # orig
    /\ OneAuditRow("error") /\ audit[1].message.kind = "verify_failed"

\* The caller has the operation's result: the orchestrator returned a boolean
\* and, in the web flow, the route has finished with it.
OperationDone ==
    /\ ret \in {"true", "false"}
    /\ \/ pc = "returned" /\ flow # "web"
       \/ pc = "route_done"

\* C13 (as stated): every cross_list or un_cross_list operation that ends on
\* one of the orchestrator's returning paths has appended exactly one row to
\* the audit log, also when it was invoked through /crosslist or /uncrosslist.
C13_OneAuditRowPerOperation == OperationDone => Len(audit) = 1

\* ------------------------------------------------------- validate, alone
\* Course, course-number, term, sub-account and teacher identifiers of the
\* pairs validate is applied to.
MaxId == 2
Ids == 1..MaxId

\* The policy toggles get_config reads from the environment.
Configs ==
    [require_parent_unpublished : BOOLEAN, forbid_parent_with_students : BOOLEAN,
     enforce_same_subaccount : BOOLEAN, enforce_same_term : BOOLEAN]

\* Parent rows: course 1, number 1, sub-account 1, teacher 1 or none.
ParentRows ==
    [cross_listed : BOOLEAN, course_id : {1}, published : BOOLEAN,
     total_students : {0, 1}, number : {1}, term : {None, 1}, subaccount : {1},
     teachers : {{}, {1}}]

\* Child rows: every attribute the rules compare with the parent's varies.
ChildRows ==
    [cross_listed : BOOLEAN, course_id : Ids, published : BOOLEAN,
     total_students : {0}, number : {None} \cup Ids, term : {None} \cup Ids,
     subaccount : Ids, teachers : {{}} \cup {{t} : t \in Ids}]

InitValidate ==
    /\ secCourse = 1
    /\ secOrig = None
    /\ enforce_same_term = TRUE
    /\ Idle
    /\ fnPc = "input"
    /\ fnIn \in [cfg : Configs, parent : ParentRows, child : ChildRows]
    /\ fnOut = <<>>

\* errors = validate_cross_listing_candidates(config, parent_section, child_section).
Validate ==
    /\ fnPc = "input"
    /\ fnOut' = validate_cross_listing_candidates(fnIn.cfg, fnIn.parent, fnIn.child)
    /\ fnPc' = "done"
    /\ UNCHANGED <<orchVars, fnIn>>

NextValidate == Validate

SpecValidate == InitValidate /\ [][NextValidate]_vars

\* ------------------------------------------------ cross-listed, as computed
\* build_course_artifacts_json: nonxlist_course_id is not None and
\* nonxlist_course_id != section_course_id.
is_cross_listed(nonxlist_course_id, section_course_id) ==
    nonxlist_course_id # None /\ nonxlist_course_id # section_course_id

\* list_sections_for_courses: bool(cross_listing_id) or (nonxlist_course_id is
\* not None and nonxlist_course_id != course_id).
ListingCrossListed(cross_listing_id, nonxlist_course_id, course_id) ==
    cross_listing_id \/ (nonxlist_course_id # None /\ nonxlist_course_id # course_id)

\* ------------------------------------------- build_course_artifacts_json
\* If course_id is None/missing, the section is treated as belonging to the
\* course being iterated.
SectionCourse(section, course_id) ==
    IF section.course_id = None THEN course_id ELSE section.course_id

\* belongs_here: not cross-listed at all, or cross-listed to this course.
belongs_here(section, course_id) ==
    section.nonxlist_course_id = None \/ SectionCourse(section, course_id) = course_id

all_sections_crosslisted_elsewhere(course) ==
    \A i \in DOMAIN course.sections : ~belongs_here(course.sections[i], course.id)

\* Variant: no course is recognised as a repetition.
DuplicateCourseNever(course_id, seen_course_ids) == FALSE

\* if course_id in seen_course_ids: continue.
DuplicateCourse(course_id, seen_course_ids) == course_id \in seen_course_ids

\* Variant: only a section already seen is skipped.
SkipSectionSeenOnly(section_id, section_course_id, course_id, seen_sections) ==
    section_id \in seen_sections

\* Skip duplicate sections, and sections that currently belong to another
\* course.
SkipSection(section_id, section_course_id, course_id, seen_sections) ==
    section_id \in seen_sections \/ section_course_id # course_id

\* The section loop of one course: a section already seen, or one whose
\* current course is another course, is skipped; the others are appended.
RECURSIVE CollectSections(_, _, _, _)
CollectSections(sections, course_id, seen_sections, acc) ==
    IF sections = <<>>
    THEN [seen |-> seen_sections, sections |-> acc]
    ELSE LET section == Head(sections)
             section_course_id == SectionCourse(section, course_id)
         IN  IF SkipSection(section.id, section_course_id, course_id, seen_sections)
             THEN CollectSections(Tail(sections), course_id, seen_sections, acc)
             ELSE CollectSections(Tail(sections), course_id,
                                  seen_sections \cup {section.id},
                                  Append(acc,
                                         [id |-> section.id,
                                          course_id |-> section_course_id,
                                          cross_listed |-> is_cross_listed(section.nonxlist_course_id,
                                                                           section_course_id),
                                          nonxlist_course_id |-> section.nonxlist_course_id]))

\* First pass: course_map, in insertion order.
RECURSIVE FirstPass(_, _, _, _)
FirstPass(courses, seen_course_ids, seen_sections, course_map) ==
    IF courses = <<>>
    THEN course_map
    ELSE LET course == Head(courses)
             rest == Tail(courses)
         IN  IF DuplicateCourse(course.id, seen_course_ids)
             THEN FirstPass(rest, seen_course_ids, seen_sections, course_map)
             ELSE IF course.sections = <<>> \/ all_sections_crosslisted_elsewhere(course)
             THEN FirstPass(rest, seen_course_ids \cup {course.id}, seen_sections, course_map)
             ELSE LET r == CollectSections(course.sections, course.id, seen_sections, <<>>)
                  IN  FirstPass(rest, seen_course_ids \cup {course.id}, r.seen,
                                Append(course_map,
                                       [course_id |-> course.id, name |-> course.name,
                                        sections |-> r.sections]))

\* Variant: the second pass keeps every artifact.
HasSectionsAlways(course_artifact) == TRUE

\* Second pass: an artifact left without sections is removed.
HasSections(course_artifact) == course_artifact.sections # <<>>

build_course_artifacts_json(courses) ==
    SelectSeq(FirstPass(courses, {}, {}, <<>>), HasSections)

\* Raw payloads the normalizer is applied to: lists of at most MaxRaw courses
\* with ids 1 and 2, each with no section, one section, or sections 1 and 2; a
\* section's current course is missing, 1 or 2, its original course null, 1 or 2.
MaxRaw == 2
NormCourseIds == {1, 2}
SectionStates == {<<None, None>>} \cup (NormCourseIds \X ({None} \cup NormCourseIds))
RawSection(id, st) == [id |-> id, course_id |-> st[1], nonxlist_course_id |-> st[2]]
SectionLists ==
    {<<>>}
    \cup {<<RawSection(i, st)>> : i \in {1, 2}, st \in SectionStates}
    \cup {<<RawSection(1, a), RawSection(2, b)>> : a \in SectionStates, b \in SectionStates}
RawCourses == [id : NormCourseIds, sections : SectionLists]
RawLists(n) == [1..n -> RawCourses]

\* Each payload carries a name of its own (its position), so an artifact shows
\* which occurrence it was built from.
Named(raw) ==
    [i \in DOMAIN raw |-> [id |-> raw[i].id, name |-> i, sections |-> raw[i].sections]]

InitNormalize ==
    /\ secCourse = 1
    /\ secOrig = None
    /\ enforce_same_term = TRUE
    /\ Idle
    /\ fnPc = "input"
    /\ \E n \in 0..MaxRaw : \E raw \in RawLists(n) : fnIn = Named(raw)
    /\ fnOut = <<>>

Normalize ==
    /\ fnPc = "input"
    /\ fnOut' = build_course_artifacts_json(fnIn)
    /\ fnPc' = "done"
    /\ UNCHANGED <<orchVars, fnIn>>

NextNormalize == Normalize

SpecNormalize == InitNormalize /\ [][NextNormalize]_vars

\* ----------------------------------------------------- get_paginated_data
\* config.per_page and config.max_retries, scaled down; MaxPages is the
\* max_pages argument of the calls explored.
per_page == 2
max_retries == 2
MaxPages == 3
max_pages_absolute == 50

\* Items are modelled by their id (item.get('id', 0)); a page is what one
\* response holds.
ItemIds == {1, 2}
Pages == UNION {[1..n -> ItemIds] : n \in 0..per_page}

\* One request of the paginator: a list came back, the token was refused
\* (401), permission was denied (403), another CanvasAPIError (429, 5xx, the
\* network), or an exception _make_request lets through.
PageOutcomes == {"ok", "unauthorized", "forbidden", "error", "value_error"}

RECURSIVE InsertSorted(_, _)
InsertSorted(x, sorted) ==
    IF sorted = <<>> THEN <<x>>
    ELSE IF x <= Head(sorted) THEN <<x>> \o sorted
    ELSE <<Head(sorted)>> \o InsertSorted(x, Tail(sorted))

\* sorted([item.get('id', 0) for item in data]).
RECURSIVE SortedIds(_)
SortedIds(data) ==
    IF data = <<>> THEN <<>> ELSE InsertSorted(Head(data), SortedIds(Tail(data)))

\* Variant: no page is recognised as a repetition.
DuplicatePageNever(data, seen_data_hashes, collide) == FALSE

\* data_hash in seen_data_hashes: the hash of the sorted id list's text was
\* seen before, because the same list was seen or because two different
\* texts hash alike (collide).
DuplicatePage(data, seen_data_hashes, collide) ==
    SortedIds(data) \in seen_data_hashes \/ (collide /\ seen_data_hashes # {})

PgStart ==
    [page |-> 1, attempt |-> 0, all_data |-> <<>>, seen_data_hashes |-> {},
     fetched |-> <<>>, requests |-> <<>>, statuses |-> <<>>, result |-> "running"]

\* The max_pages argument (None and 0 both switch the limit off) and
\* config.max_retries of the call.
InitPaginate ==
    /\ secCourse = 1
    /\ secOrig = None
    /\ enforce_same_term = TRUE
    /\ Idle
    /\ fnPc = "input"
    /\ fnIn \in [max_pages : {None} \cup (1..MaxPages), max_retries : 0..max_retries]
    /\ fnOut = PgStart

PgReturn(st) == [st EXCEPT !.result = "returned"]

\* max_pages and page > max_pages, or page > max_pages_absolute.
PageLimitReached(st, max_pages) ==
    \/ max_pages # None /\ st.page > max_pages
    \/ st.page > max_pages_absolute

\* A non-empty list came back: the duplicate check, extend, the short-page
\* check, the next page.
OnPage(st, data, collide) ==
    LET got == [st EXCEPT !.fetched = Append(@, [data |-> data, req |-> Len(st.requests)])]
        more == [got EXCEPT !.seen_data_hashes = @ \cup {SortedIds(data)},
                            !.all_data = @ \o data]
    IN  IF data = <<>> THEN PgReturn(got)
        ELSE IF DuplicatePage(data, st.seen_data_hashes, collide) THEN PgReturn(got)
        ELSE IF Len(data) < per_page THEN PgReturn(more)
        ELSE [more EXCEPT !.page = @ + 1, !.attempt = 0]

\* Variant: a 401 is retried like any other error.
OnCanvasAPIErrorRetrying401(st, o, retries) ==
    IF st.attempt = retries - 1 THEN PgReturn(st) ELSE [st EXCEPT !.attempt = @ + 1]

\* Variant: after the last attempt the page is skipped.
OnCanvasAPIErrorSkippingPage(st, o, retries) ==
    IF o = "unauthorized" THEN PgReturn(st)
    ELSE IF st.attempt = retries - 1 THEN [st EXCEPT !.page = @ + 1, !.attempt = 0]
    ELSE [st EXCEPT !.attempt = @ + 1]

\* except CanvasAPIError: a 401 returns all_data; anything else waits and
\* takes the next attempt, and returns all_data after the last one.
OnCanvasAPIError(st, o, retries) ==
    IF o = "unauthorized" THEN PgReturn(st)
    ELSE IF st.attempt = retries - 1 THEN PgReturn(st)
    ELSE [st EXCEPT !.attempt = @ + 1]

\* The page limit is reached: break and return all_data.
Pg_PageLimit ==
    /\ fnPc = "input"
    /\ PageLimitReached(fnOut, fnIn.max_pages)
    /\ fnOut' = PgReturn(fnOut)
    /\ fnPc' = "done"
    /\ UNCHANGED <<orchVars, fnIn>>

\* One attempt of the retry loop for the current page.
Pg_Fetch(o, data, collide) ==
    /\ fnPc = "input"
    /\ ~PageLimitReached(fnOut, fnIn.max_pages)
    /\ fnOut.attempt < fnIn.max_retries
    /\ o # "ok" => (data = <<>> /\ ~collide)
    /\ LET st == [fnOut EXCEPT !.requests = Append(@, fnOut.page),
                               !.statuses = Append(@, o)]
           nxt == CASE o = "ok" -> OnPage(st, data, collide)
                    [] o = "value_error" -> [st EXCEPT !.result = "raised"]
                    [] OTHER -> OnCanvasAPIError(st, o, fnIn.max_retries)
       IN  /\ fnOut' = nxt
           /\ fnPc' = IF nxt.result = "running" THEN "input" ELSE "done"
    /\ UNCHANGED <<orchVars, fnIn>>

\* range(max_retries) is empty: the for loop has no iteration, and the while
\* loop comes round with the same page.
Pg_NoAttempt ==
    /\ fnPc = "input"
    /\ ~PageLimitReached(fnOut, fnIn.max_pages)
    /\ fnIn.max_retries = 0
    /\ UNCHANGED vars

NextPaginate ==
    \/ Pg_PageLimit
    \/ \E o \in PageOutcomes, data \in Pages, collide \in BOOLEAN : Pg_Fetch(o, data, collide)
    \/ Pg_NoAttempt

SpecPaginate == InitPaginate /\ [][NextPaginate]_vars

\* ------------------------------- apply_post_crosslist_updates, its texts
\* Text is a sequence of characters. The literal pieces the updater writes are
\* one symbol each: "<S>" and "<E>" the two CROSSLIST_CHILDREN markers, "<PM>"
\* and "</PM>" the opening and closing part of the CROSSLIST_PRIMARY_SUFFIX
\* comment, "<HDR>" the <hr> and <h3> header with its newline, "<UL>", "</UL>",
\* "<LI>" ("  <li>Child Course - "), "</LI>", and "LF" the newline.
UpperOf(ch) ==
    CASE ch = "p" -> "P" [] ch = "c" -> "C" [] ch = "n" -> "N" [] ch = "e" -> "E"
      [] OTHER -> ch

upper(text) == [i \in DOMAIN text |-> UpperOf(text[i])]

\* [0-9A-Z]
IsAlnumUpper(ch) == ch \in {"1", "5", "C", "E", "N", "P"}

IsAsciiLetter(ch) == ch \in {"C", "E", "N", "P", "c", "e", "n", "p"}

IsDigit(ch) == ch \in {"1", "5"}

IsSpace(ch) == ch \in {" ", "LF"}

\* The order of the characters of a suffix, as their code points.
CharRank(ch) ==
    CASE ch = "1" -> 1 [] ch = "5" -> 2 [] ch = "C" -> 3 [] ch = "E" -> 4
      [] ch = "N" -> 5 [] ch = "P" -> 6 [] OTHER -> 0

RECURSIVE StrLess(_, _)
StrLess(a, b) ==
    IF b = <<>> THEN FALSE
    ELSE IF a = <<>> THEN TRUE
    ELSE IF CharRank(Head(a)) # CharRank(Head(b)) THEN CharRank(Head(a)) < CharRank(Head(b))
    ELSE StrLess(Tail(a), Tail(b))

\* sorted(set of strings)
RECURSIVE SortedStrings(_)
SortedStrings(set) ==
    IF set = {} THEN <<>>
    ELSE LET least == CHOOSE a \in set : \A b \in set \ {a} : StrLess(a, b)
         IN  <<least>> \o SortedStrings(set \ {least})

\* sep.join(parts)
RECURSIVE Join(_, _)
Join(parts, sep) ==
    IF parts = <<>> THEN <<>>
    ELSE IF Len(parts) = 1 THEN parts[1]
    ELSE parts[1] \o sep \o Join(Tail(parts), sep)

RECURSIVE strip(_)
strip(text) ==
    IF text = <<>> THEN <<>>
    ELSE IF IsSpace(Head(text)) THEN strip(Tail(text))
    ELSE IF IsSpace(text[Len(text)]) THEN strip(SubSeq(text, 1, Len(text) - 1))
    ELSE text

\* The length of the run of [0-9A-Z] that ends the text.
RECURSIVE TrailingAlnum(_)
TrailingAlnum(text) ==
    IF text = <<>> \/ ~IsAlnumUpper(text[Len(text)]) THEN 0
    ELSE 1 + TrailingAlnum(SubSeq(text, 1, Len(text) - 1))

Min(a, b) == IF a < b THEN a ELSE b

\* _extract_from_text: the last group of at most 5 of [0-9A-Z] of the
\* upper-cased, stripped text; <<>> stands for None.
extract_from_text(text) ==
    LET text_u == strip(upper(text))
        n == Min(TrailingAlnum(text_u), 5)
    IN  SubSeq(text_u, Len(text_u) - n + 1, Len(text_u))

\* _extract_section_suffix; a missing sis_section_id or name is <<>>.
extract_section_suffix(sis_section_id, section_name) ==
    LET suffix == extract_from_text(sis_section_id)
    IN  IF suffix # <<>> THEN suffix ELSE extract_from_text(section_name)

\* The place of the last ch in text, 0 when there is none.
LastIndexOf(text, ch) ==
    LET at == {i \in DOMAIN text : text[i] = ch}
    IN  IF at = {} THEN 0 ELSE CHOOSE i \in at : \A j \in at : j <= i

\* re.fullmatch(r'[0-9A-Z]{1,5}', text.upper())
IsSuffixToken(text) ==
    /\ Len(text) \in 1..5
    /\ \A i \in DOMAIN text : IsAlnumUpper(UpperOf(text[i]))

\* _build_option_c_course_name
build_option_c_course_name(base_course_code, existing_course_name, parent_primary_suffix, child_suffixes) ==
    LET dash == LastIndexOf(base_course_code, "-")
        maybe_prefix == SubSeq(base_course_code, 1, dash - 1)
        maybe_suffix == SubSeq(base_course_code, dash + 1, Len(base_course_code))
        prefix == IF dash > 0 /\ IsSuffixToken(maybe_suffix)
                  THEN maybe_prefix ELSE base_course_code
        parent_part == IF parent_primary_suffix # <<>>
                       THEN <<upper(parent_primary_suffix)>> ELSE <<>>
        child_list == {upper(child_suffixes[i]) : i \in DOMAIN child_suffixes}
                          \ {<<>>, upper(parent_primary_suffix)}
        parts == parent_part \o SortedStrings(child_list)
        code_part == IF parts # <<>> THEN prefix \o <<"-">> \o Join(parts, <<"/">>)
                     ELSE prefix
    IN  IF code_part # <<>> THEN code_part \o <<":", " ">> \o existing_course_name
        ELSE existing_course_name

\* _build_children_html_list; children is a list of <<code, name>>.
build_children_html_list(children) ==
    LET item(child) == <<"<LI>">> \o child[1] \o <<":", " ">> \o child[2] \o <<"</LI>">>
        items == Join([i \in DOMAIN children |-> item(children[i])], <<"LF">>)
    IN  <<"<S>", "LF", "<UL>", "LF">> \o items \o <<"LF", "</UL>", "LF", "<E>">>

\* What re.sub makes of its replacement text: backslash-n is a newline, two
\* backslashes are one, a backslash before another letter or a digit (there
\* is no group) or at the end is an error, "<ERR>".
RECURSIVE ExpandTemplate(_)
ExpandTemplate(repl) ==
    IF repl = <<>> THEN <<>>
    ELSE IF Head(repl) # "\\" THEN <<Head(repl)>> \o ExpandTemplate(Tail(repl))
    ELSE IF Len(repl) = 1 THEN <<"<ERR>">>
    ELSE IF repl[2] = "n" THEN <<"LF">> \o ExpandTemplate(Tail(Tail(repl)))
    ELSE IF repl[2] = "\\" THEN <<"\\">> \o ExpandTemplate(Tail(Tail(repl)))
    ELSE IF IsAsciiLetter(repl[2]) \/ IsDigit(repl[2]) THEN <<"<ERR>">>
    ELSE <<"\\", repl[2]>> \o ExpandTemplate(Tail(Tail(repl)))

\* The first place of ch in text after place from, 0 when there is none.
IndexAfter(text, ch, from) ==
    LET at == {i \in DOMAIN text : i > from /\ text[i] = ch}
    IN  IF at = {} THEN 0 ELSE CHOOSE i \in at : \A j \in at : i <= j

\* pattern.sub(repl, text) for the pattern "<S>", anything (as little as
\* possible), "<E>"; repl is already expanded.
RECURSIVE SubBlocks(_, _)
SubBlocks(text, repl) ==
    LET i == IndexAfter(text, "<S>", 0)
        j == IndexAfter(text, "<E>", i)
    IN  IF i = 0 \/ j = 0 THEN text
        ELSE SubSeq(text, 1, i - 1) \o repl \o SubBlocks(SubSeq(text, j + 1, Len(text)), repl)

\* primary_marker_re.search(current_syllabus): the suffix of the first
\* well-formed CROSSLIST_PRIMARY_SUFFIX comment, <<>> when there is none.
StoredPrimarySuffix(syllabus) ==
    LET found == {i \in DOMAIN syllabus :
                     /\ syllabus[i] = "<PM>"
                     /\ LET j == IndexAfter(syllabus, "</PM>", i)
                        IN  /\ j > 0
                            /\ IsSuffixToken(strip(SubSeq(syllabus, i + 1, j - 1)))
                            /\ strip(SubSeq(syllabus, i + 1, j - 1))
                                   = upper(strip(SubSeq(syllabus, i + 1, j - 1)))}
    IN  IF found = {} THEN <<>>
        ELSE LET i == CHOOSE k \in found : \A l \in found : k <= l
             IN  strip(SubSeq(syllabus, i + 1, IndexAfter(syllabus, "</PM>", i) - 1))

\* The runs of the updater explored in a row.
MaxRuns == 2

ParentCourse == 1
ChildCourses == {2, 3}

\* Course codes and names of the child courses; the first child's name may
\* hold a backslash.
ChildCode(cid) == IF cid = 2 THEN <<"E", "-", "5">> ELSE <<"N", "-", "1">>
ChildNames == {<<"c">>, <<"c", "\\", "n">>}

\* The parent's own section, and the section each child course brought.
NativeSections ==
    {[id |-> 1, nonxlist_course_id |-> None, sis_section_id |-> sis, name |-> <<"e", " ", "1">>] :
        sis \in {<<"E", "-", "1">>, <<>>}}
ChildSection(cid, sis) ==
    [id |-> cid, nonxlist_course_id |-> cid, sis_section_id |-> sis, name |-> <<>>]
ChildSis(cid) ==
    IF cid = 2 THEN {<<"E", "-", "5">>, <<"E", "-", "1">>} ELSE {<<"n", "-", "c">>}

ParentCodes == {<<"E", "-", "1">>, <<"E", "1">>}
Syllabi == {<<>>, <<"t">>, <<"t", "LF">>, <<"<S>", "t">>}

InitUpdater ==
    /\ secCourse = 1
    /\ secOrig = None
    /\ enforce_same_term = TRUE
    /\ Idle
    /\ fnPc = "input"
    /\ \E code \in ParentCodes, native \in NativeSections, sis2 \in ChildSis(2),
          sis3 \in ChildSis(3), kids \in (SUBSET ChildCourses) \ {{}}, cname \in ChildNames :
          fnIn = [course_code |-> code,
                  sections |-> <<native>>
                      \o (IF 2 \in kids THEN <<ChildSection(2, sis2)>> ELSE <<>>)
                      \o (IF 3 \in kids THEN <<ChildSection(3, sis3)>> ELSE <<>>),
                  child_name |-> [cid \in ChildCourses |-> IF cid = 2 THEN cname ELSE <<"n">>]]
    /\ \E syllabus \in Syllabi :
          fnOut = [name |-> <<"p">>, syllabus_body |-> syllabus, runs |-> <<>>]

\* sorted(set of course ids)
RECURSIVE SortedIdSet(_)
SortedIdSet(set) ==
    IF set = {} THEN <<>>
    ELSE LET least == CHOOSE a \in set : \A b \in set : a <= b
         IN  <<least>> \o SortedIdSet(set \ {least})

\* One run of apply_post_crosslist_updates on the parent as it stands
\* (remote), with the answers the requests of this run get (env). The result
\* holds the parent after the run, whether the run raised, and what it
\* returned.
apply_post_crosslist_updates(remote, in, env) ==
    LET parent_course_name == remote.name
        parent_course_code == in.course_code
        current_syllabus == remote.syllabus_body
        stored_primary_suffix == StoredPrimarySuffix(current_syllabus)
        sections == IF env.sections_ok THEN in.sections ELSE <<>>
        IsParentCandidate(sec) ==
            sec.nonxlist_course_id = None \/ sec.nonxlist_course_id = ParentCourse
        parent_candidates == SelectSeq(sections, IsParentCandidate)
        child_sections == SelectSeq(sections, LAMBDA sec : ~IsParentCandidate(sec))
        child_section_ids == [i \in DOMAIN child_sections |-> child_sections[i].id]
        child_origin_course_ids ==
            {child_sections[i].nonxlist_course_id : i \in DOMAIN child_sections} \ {None}
        \* stored > provided (the one caller provides none) > first native section
        parent_primary_suffix ==
            IF stored_primary_suffix # <<>> THEN stored_primary_suffix
            ELSE IF parent_candidates # <<>>
            THEN LET primary == CHOOSE sec \in Range(parent_candidates) :
                                    \A other \in Range(parent_candidates) : sec.id <= other.id
                 IN  upper(extract_section_suffix(primary.sis_section_id, primary.name))
            ELSE <<>>
        child_suffixes ==
            [i \in DOMAIN child_sections |->
                extract_section_suffix(child_sections[i].sis_section_id, child_sections[i].name)]
        new_course_name ==
            build_option_c_course_name(parent_course_code, parent_course_name,
                                       parent_primary_suffix, child_suffixes)
        put_name == new_course_name # <<>> /\ new_course_name # parent_course_name
        named == IF put_name /\ env.put_name_ok
                 THEN [remote EXCEPT !.name = new_course_name] ELSE remote
        fetched == SelectSeq(SortedIdSet(child_origin_course_ids),
                             LAMBDA cid : cid \notin env.failed_children)
        children_display ==
            [i \in DOMAIN fetched |-> <<ChildCode(fetched[i]), in.child_name[fetched[i]]>>]
        html_block == build_children_html_list(children_display)
        has_block == "<S>" \in Range(current_syllabus) /\ "<E>" \in Range(current_syllabus)
        repl == ExpandTemplate(html_block)
        replaced == SubBlocks(current_syllabus, repl)
        sep == IF current_syllabus # <<>> /\ current_syllabus[Len(current_syllabus)] # "LF"
               THEN <<"LF", "LF">> ELSE <<"LF">>
        primary_marker_str ==
            IF parent_primary_suffix # <<>>
            THEN <<"<PM>">> \o parent_primary_suffix \o <<"</PM>", "LF">> ELSE <<>>
        appended == current_syllabus \o sep \o primary_marker_str \o <<"<HDR>">> \o html_block
        new_syllabus == IF has_block THEN replaced ELSE appended
        put_syllabus == ~has_block \/ new_syllabus # current_syllabus
        \* update_course_fields: the fields of each PUT, and whether it was applied
        name_put == IF put_name
                    THEN <<[fields |-> {"name"}, applied |-> env.put_name_ok]>> ELSE <<>>
        syllabus_put == IF put_syllabus
                        THEN <<[fields |-> {"syllabus_body"}, applied |-> env.put_syllabus_ok]>>
                        ELSE <<>>
        RaisedLeaving(after, puts) ==
            [remote |-> after, raised |-> TRUE, puts |-> puts, new_course_name |-> <<>>,
             child_section_ids |-> <<>>, syllabus_updated |-> FALSE]
    IN  IF ~env.parent_ok THEN RaisedLeaving(remote, <<>>)
        ELSE IF put_name /\ ~env.put_name_ok THEN RaisedLeaving(remote, name_put)
        ELSE IF has_block /\ "<ERR>" \in Range(repl) THEN RaisedLeaving(named, name_put)
        ELSE IF put_syllabus /\ ~env.put_syllabus_ok
        THEN RaisedLeaving(named, name_put \o syllabus_put)
        ELSE [remote |-> IF put_syllabus
                         THEN [named EXCEPT !.syllabus_body = new_syllabus] ELSE named,
              raised |-> FALSE, puts |-> name_put \o syllabus_put,
              new_course_name |-> new_course_name,
              child_section_ids |-> child_section_ids, syllabus_updated |-> put_syllabus]

\* The answers one run can get: the parent GET, the section list (the
\* paginator returns nothing after a failure), each child GET, the two PUTs.
UpdaterEnvs ==
    [parent_ok : BOOLEAN, sections_ok : BOOLEAN, failed_children : SUBSET ChildCourses,
     put_name_ok : BOOLEAN, put_syllabus_ok : BOOLEAN]

AllAnswered(env) ==
    /\ env.parent_ok /\ env.sections_ok /\ env.failed_children = {}
    /\ env.put_name_ok /\ env.put_syllabus_ok

\* The updater runs once more on the same parent.
ApplyUpdates(env) ==
    /\ fnPc = "input"
    /\ Len(fnOut.runs) < MaxRuns
    /\ LET remote == [name |-> fnOut.name, syllabus_body |-> fnOut.syllabus_body]
       IN  \E out \in {apply_post_crosslist_updates(remote, fnIn, env)} :
           fnOut' = [name |-> out.remote.name,
                     syllabus_body |-> out.remote.syllabus_body,
                     runs |-> Append(fnOut.runs,
                                 [clean |-> AllAnswered(env), raised |-> out.raised,
                                  before |-> remote, after |-> out.remote,
                                  puts |-> out.puts,
                                  new_course_name |-> out.new_course_name,
                                  syllabus_updated |-> out.syllabus_updated])]
    /\ UNCHANGED <<orchVars, fnPc, fnIn>>

NextUpdater == \E env \in UpdaterEnvs : ApplyUpdates(env)

SpecUpdater == InitUpdater /\ [][NextUpdater]_vars

\* --------------------------------------------------- cache_get, cache_set
\* Callers of the cache at once, operations started in all, and the hours of
\* the clock.
NumCallers == 2
MaxOps == 3
MaxClock == 2

CacheKeys == {1}
CacheValues == {1, 2}
Ttls == {0, 1}

NoEntry == [present |-> FALSE, value |-> None, expires |-> 0]
EmptyDoc == [k \in CacheKeys |-> NoEntry]

\* cache.json: absent, whole (a complete JSON document), or partial (opened
\* for writing and not yet completely written); ino tells one file from the
\* file os.replace puts in its place.
NoFile == [state |-> "absent", doc |-> EmptyDoc, ino |-> 0]

CallerIdle ==
    [pc |-> "idle", key |-> None, value |-> None, ttl |-> 0, data |-> EmptyDoc, ino |-> 0]

InitCache ==
    /\ secCourse = 1
    /\ secOrig = None
    /\ enforce_same_term = TRUE
    /\ Idle
    /\ fnPc = "cache"
    /\ fnIn \in [callers : 1..NumCallers]
    /\ fnOut = [clock |-> 0, file |-> NoFile, started |-> 0,
                caller |-> [p \in 1..fnIn.callers |-> CallerIdle],
                log |-> <<>>, writes |-> {}, partial_read |-> FALSE]

Callers == 1..fnIn.callers

\* datetime.now().timestamp() > entry['expires']
Expired(entry, now) == now > entry.expires

CacheReturn(st, p, op, result) ==
    [st EXCEPT !.caller[p] = CallerIdle,
               !.log = Append(@, [caller |-> p, op |-> op, key |-> st.caller[p].key,
                                  ttl |-> st.caller[p].ttl, result |-> result])]

\* The clock moves on.
Tick ==
    /\ fnPc = "cache"
    /\ fnOut.clock < MaxClock
    /\ fnOut' = [fnOut EXCEPT !.clock = @ + 1]
    /\ UNCHANGED <<orchVars, fnPc, fnIn>>

\* cache_get(key) is called.
Get_Call(p, key) ==
    /\ fnPc = "cache"
    /\ fnOut.caller[p].pc = "idle"
    /\ fnOut.started < MaxOps
    /\ fnOut' = [fnOut EXCEPT !.started = @ + 1,
                              !.caller[p] = [CallerIdle EXCEPT !.pc = "get_load", !.key = key]]
    /\ UNCHANGED <<orchVars, fnPc, fnIn>>

\* exists(), json.load, the key and expiry tests.
Get_Load(p) ==
    /\ fnPc = "cache"
    /\ fnOut.caller[p].pc = "get_load"
    /\ LET me == fnOut.caller[p]
           entry == fnOut.file.doc[me.key]
       IN  fnOut' =
             CASE fnOut.file.state = "absent" -> CacheReturn(fnOut, p, "get", None)
               [] fnOut.file.state = "partial" ->
                    [CacheReturn(fnOut, p, "get", None) EXCEPT !.partial_read = TRUE]
               [] OTHER ->
                    IF ~entry.present THEN CacheReturn(fnOut, p, "get", None)
                    ELSE IF Expired(entry, fnOut.clock)
                    THEN [fnOut EXCEPT !.caller[p].pc = "get_open",
                                       !.caller[p].data =
                                           [fnOut.file.doc EXCEPT ![me.key] = NoEntry]]
                    ELSE CacheReturn(fnOut, p, "get", entry.value)
    /\ UNCHANGED <<orchVars, fnPc, fnIn>>

\* open(cache_file, 'w'): the file is truncated.
Get_Open(p) ==
    /\ fnPc = "cache"
    /\ fnOut.caller[p].pc = "get_open"
    /\ fnOut' = [fnOut EXCEPT !.file.state = "partial",
                              !.caller[p].pc = "get_dump",
                              !.caller[p].ino = fnOut.file.ino]
    /\ UNCHANGED <<orchVars, fnPc, fnIn>>

\* json.dump(cache_data, f) and close; the text goes to the file that was
\* opened, which os.replace may have put aside since.
Get_Dump(p) ==
    /\ fnPc = "cache"
    /\ fnOut.caller[p].pc = "get_dump"
    /\ LET me == fnOut.caller[p]
           written == IF fnOut.file.ino = me.ino
                      THEN [fnOut EXCEPT !.file.state = "whole", !.file.doc = me.data]
                      ELSE fnOut
       IN  fnOut' = CacheReturn([written EXCEPT !.writes = @ \cup {"in_place"}], p, "get", None)
    /\ UNCHANGED <<orchVars, fnPc, fnIn>>

\* cache_set(key, value, ttl_seconds) is called.
Set_Call(p, key, value, ttl) ==
    /\ fnPc = "cache"
    /\ fnOut.caller[p].pc = "idle"
    /\ fnOut.started < MaxOps
    /\ fnOut' = [fnOut EXCEPT !.started = @ + 1,
                              !.caller[p] = [CallerIdle EXCEPT !.pc = "set_load", !.key = key,
                                                               !.value = value, !.ttl = ttl]]
    /\ UNCHANGED <<orchVars, fnPc, fnIn>>

\* The file is read (a corrupted one starts fresh) and the entry is put into
\* cache_data with expires = now + ttl_seconds.
Set_Load(p) ==
    /\ fnPc = "cache"
    /\ fnOut.caller[p].pc = "set_load"
    /\ LET me == fnOut.caller[p]
           cache_data == IF fnOut.file.state = "whole" THEN fnOut.file.doc ELSE EmptyDoc
           entry == [present |-> TRUE, value |-> me.value, expires |-> fnOut.clock + me.ttl]
       IN  fnOut' = [fnOut EXCEPT !.caller[p].pc = "set_replace",
                                  !.caller[p].data = [cache_data EXCEPT ![me.key] = entry],
                                  !.partial_read = @ \/ fnOut.file.state = "partial"]
    /\ UNCHANGED <<orchVars, fnPc, fnIn>>

\* The temporary file is written and os.replace puts it in cache.json's
\* place; an exception on the way is logged and nothing is written.
Set_Replace(p, ok) ==
    /\ fnPc = "cache"
    /\ fnOut.caller[p].pc = "set_replace"
    /\ LET me == fnOut.caller[p]
           written == IF ok
                      THEN [fnOut EXCEPT !.file = [state |-> "whole", doc |-> me.data,
                                                   ino |-> fnOut.file.ino + 1],
                                         !.writes = @ \cup {"replace"}]
                      ELSE fnOut
       IN  fnOut' = CacheReturn(written, p, "set", None)
    /\ UNCHANGED <<orchVars, fnPc, fnIn>>

NextCache ==
    \/ Tick
    \/ \E p \in Callers, key \in CacheKeys : Get_Call(p, key)
    \/ \E p \in Callers : Get_Load(p)
    \/ \E p \in Callers : Get_Open(p)
    \/ \E p \in Callers : Get_Dump(p)
    \/ \E p \in Callers, key \in CacheKeys, value \in CacheValues, ttl \in Ttls :
          Set_Call(p, key, value, ttl)
    \/ \E p \in Callers : Set_Load(p)
    \/ \E p \in Callers, ok \in BOOLEAN : Set_Replace(p, ok)

SpecCache == InitCache /\ [][NextCache]_vars

\* ------------------- the worker pools: course hydration, permission checks
\* ThreadPoolExecutor(max_workers=3), and the course ids submitted to it.
max_workers == 3
NumTasks == 4

PoolFunctions == {"list_user_term_courses_via_enrollments", "check_course_permissions"}

InitPool ==
    /\ secCourse = 1
    /\ secOrig = None
    /\ enforce_same_term = TRUE
    /\ Idle
    /\ fnPc = "pool"
    /\ fnIn \in [fn : PoolFunctions, tasks : 1..NumTasks]
    /\ \E token \in {"cached", "none"} :
          fnOut = [token |-> token,
                   task |-> [t \in 1..fnIn.tasks |-> [pc |-> "queued", client |-> None]],
                   requests |-> {}]

Tasks == 1..fnIn.tasks

\* Tasks a worker thread is busy with, and those with a request in flight.
Running == {t \in Tasks : fnOut.task[t].pc \notin {"queued", "done"}}
InFlight == {t \in Tasks : fnOut.task[t].pc \in {"token_post", "get"}}

\* Variant: one worker thread for every task submitted.
PoolSizeOfTasks(in) == in.tasks

\* max_workers of the pool.
PoolSize(in) == max_workers

\* The request a task sends: its own client, the method, the endpoint.
TokenPost(t) == [task |-> t, client |-> fnOut.task[t].client, method |-> "POST",
                 path |-> "/login/oauth2/token"]
CourseGet(t) == [task |-> t, client |-> fnOut.task[t].client, method |-> "GET",
                 path |-> "/api/v1/courses"]

\* A free worker thread takes the next submitted task, which creates its
\* CanvasAPIClient.
Pool_Start(t) ==
    /\ fnPc = "pool"
    /\ fnOut.task[t].pc = "queued"
    /\ \A u \in Tasks : u < t => fnOut.task[u].pc # "queued"
    /\ Cardinality(Running) < PoolSize(fnIn)
    /\ fnOut' = [fnOut EXCEPT !.task[t] = [pc |-> "started", client |-> t]]
    /\ UNCHANGED <<orchVars, fnPc, fnIn>>

\* _make_request asks the token provider: a cached token is used and the GET
\* is sent; without one, get_canvas_token posts to the token endpoint.
Pool_Request(t) ==
    /\ fnPc = "pool"
    /\ fnOut.task[t].pc = "started"
    /\ IF fnOut.token = "cached"
       THEN fnOut' = [fnOut EXCEPT !.task[t].pc = "get", !.requests = @ \cup {CourseGet(t)}]
       ELSE fnOut' = [fnOut EXCEPT !.task[t].pc = "token_post",
                                   !.requests = @ \cup {TokenPost(t)}]
    /\ UNCHANGED <<orchVars, fnPc, fnIn>>

\* The token endpoint answers: the token is cached and the GET is sent, or
\* the task ends with the error.
Pool_TokenAnswer(t, ok) ==
    /\ fnPc = "pool"
    /\ fnOut.task[t].pc = "token_post"
    /\ IF ok
       THEN fnOut' = [fnOut EXCEPT !.token = "cached", !.task[t].pc = "get",
                                   !.requests = @ \cup {CourseGet(t)}]
       ELSE fnOut' = [fnOut EXCEPT !.task[t].pc = "done"]
    /\ UNCHANGED <<orchVars, fnPc, fnIn>>

\* The GET is answered, with the course or an error; the task ends.
Pool_GetAnswer(t) ==
    /\ fnPc = "pool"
    /\ fnOut.task[t].pc = "get"
    /\ fnOut' = [fnOut EXCEPT !.task[t].pc = "done"]
    /\ UNCHANGED <<orchVars, fnPc, fnIn>>

\* time.time() reaches _token_expiry.
Pool_TokenExpires ==
    /\ fnPc = "pool"
    /\ fnOut.token = "cached"
    /\ \E t \in Tasks : fnOut.task[t].pc # "done"
    /\ fnOut' = [fnOut EXCEPT !.token = "none"]
    /\ UNCHANGED <<orchVars, fnPc, fnIn>>

NextPool ==
    \/ \E t \in Tasks : Pool_Start(t)
    \/ \E t \in Tasks : Pool_Request(t)
    \/ \E t \in Tasks, ok \in BOOLEAN : Pool_TokenAnswer(t, ok)
    \/ \E t \in Tasks : Pool_GetAnswer(t)
    \/ Pool_TokenExpires

SpecPool == InitPool /\ [][NextPool]_vars

\* ------------------- successive operations of one caller on one section
\* A caller invokes cross_list_section and un_cross_list_section one after
\* the other on a section that starts out not cross-listed.  fnIn keeps the
\* course the section started in; fnOut follows the sequence "verified
\* cross_list into a parent, then verified un_cross_list": fresh, listed,
\* restored, and off once a mutating request outside that sequence was sent.
InitRoundTrip ==
    /\ secCourse \in Courses
    /\ secOrig = None
    /\ enforce_same_term \in BOOLEAN
    /\ Idle
    /\ fnPc = "trip"
    /\ fnIn = [original |-> secCourse]
    /\ fnOut = [stage |-> "fresh", parent |-> None]

\* cross_list_section returned True after its POST and verification.
CrossListVerified ==
    /\ action = "cross_list" /\ ret = "true"
    /\ \E i \in DOMAIN reqs : reqs[i].method = "POST" /\ reqs[i].status = "ok"

\* un_cross_list_section returned True after its DELETE and verification.
UnCrossListVerified ==
    /\ action = "un_cross_list" /\ ret = "true"
    /\ \E i \in DOMAIN reqs : reqs[i].method = "DELETE" /\ reqs[i].status = "ok"

\* Where the sequence stands once the running invocation has returned.
StageAfter ==
    CASE fnOut.stage = "fresh" /\ CrossListVerified -> [stage |-> "listed", parent |-> parent]
      [] fnOut.stage = "listed" /\ UnCrossListVerified -> [fnOut EXCEPT !.stage = "restored"]
      [] OTHER -> IF \E i \in DOMAIN reqs : Mutating(reqs[i]) /\ reqs[i].path = "crosslist"
                  THEN [fnOut EXCEPT !.stage = "off"]
                  ELSE fnOut

Trip_CrossList(par, dry) ==
    /\ fnOut.stage # "off"
    /\ Enter("cross_list", "none", FALSE, FALSE, par, dry, "xl_fetch_section")

Trip_UnCrossList(dry) ==
    /\ fnOut.stage # "off"
    /\ Enter("un_cross_list", "none", FALSE, FALSE, None, dry, "ux_fetch_section")

\* The caller has the result; the next invocation starts with fresh locals.
Trip_Returned ==
    /\ pc = "returned"
    /\ pc' = "idle"
    /\ action' = "none"
    /\ flow' = "none"
    /\ valErrs' = FALSE
    /\ sbActive' = FALSE
    /\ parent' = None
    /\ dryRun' = FALSE
    /\ cur' = None
    /\ orig' = None
    /\ pTerm' = None
    /\ pSandbox' = FALSE
    /\ termsDiffer' = FALSE
    /\ sandboxMode' = FALSE
    /\ upd' = NoUpd
    /\ reqs' = <<>>
    /\ audit' = <<>>
    /\ ret' = "none"
    /\ fnOut' = StageAfter
    /\ UNCHANGED <<remoteVars, enforce_same_term, fnPc, fnIn>>

NextRoundTrip ==
    \/ \E par \in Courses, dry \in BOOLEAN : Trip_CrossList(par, dry)
    \/ \E dry \in BOOLEAN : Trip_UnCrossList(dry)
    \/ \E o \in ReqOutcomes : XL_FetchSection(o)
    \/ \E o \in ReqOutcomes, t \in TermValues, sb \in BOOLEAN : XL_FetchParent(o, t, sb)
    \/ \E o \in ReqOutcomes, t \in TermValues, sb \in BOOLEAN : XL_FetchChild(o, t, sb)
    \/ \E o \in ReqOutcomes, applied \in BOOLEAN : XL_Post(o, applied)
    \/ \E o \in ReqOutcomes : XL_Verify(o)
    \/ \E o \in ReqOutcomes, code \in BOOLEAN, markers \in BOOLEAN : Upd_GetCourse(o, code, markers)
    \/ \E o \in ReqOutcomes, parts \in BOOLEAN : Upd_GetSections(o, parts)
    \/ \E o \in ReqOutcomes : Upd_PutName(o)
    \/ \E o \in ReqOutcomes : Upd_GetChild(o)
    \/ \E o \in ReqOutcomes, same \in BOOLEAN : Upd_Syllabus(o, same)
    \/ \E o \in ReqOutcomes : UX_FetchSection(o)
    \/ \E o \in ReqOutcomes, applied \in BOOLEAN : UX_Delete(o, applied)
    \/ \E o \in ReqOutcomes : UX_Verify(o)
    \/ Trip_Returned

SpecRoundTrip == InitRoundTrip /\ [][NextRoundTrip]_vars

\* ----------------- two cross_list_section invocations on the same section
\* Two callers (two web requests, or the web app and the CLI) run
\* cross_list_section for the same child section with different parents,
\* dry_run False.  The function takes no lock and keeps no shared state: the
\* invocations meet only in the section's remote record.  fnIn holds the two
\* parent_course_id arguments, fnOut each invocation's position and locals.
Invocations == {1, 2}

InitRace ==
    /\ secCourse = 1
    /\ secOrig = None
    /\ enforce_same_term \in BOOLEAN
    /\ Idle
    /\ fnPc = "race"
    /\ fnIn \in {ps \in [Invocations -> Courses \ {1}] : ps[1] # ps[2]}
    /\ fnOut = [i \in Invocations |->
                   [pc |-> "fetch_section", cur |-> None, orig |-> None,
                    posted |-> FALSE, ret |-> "none"]]

\* Invocation i returns r (after its audit row) or lets exception e out.
RaceEnds(i, r) == fnOut' = [fnOut EXCEPT ![i].pc = "done", ![i].ret = r]

RaceFails(i, o) == RaceEnds(i, IF Raised(o) = "CanvasAPIError" THEN "false" ELSE "raised")

\* Pre-move guard: get_section.
Race_FetchSection(i, o) ==
    /\ fnOut[i].pc = "fetch_section"
    /\ IF Raised(o) = "none"
       THEN fnOut' = [fnOut EXCEPT ![i].pc = "fetch_courses",
                                   ![i].cur = secCourse, ![i].orig = secOrig]
       ELSE RaceFails(i, o)
    /\ UNCHANGED <<orchVars, fnPc, fnIn>>

\* The two get_course calls and the decisions up to the POST.
Race_FetchCourses(i, o, differ, sandbox) ==
    /\ fnOut[i].pc = "fetch_courses"
    /\ IF Raised(o) = "none"
       THEN LET d == XLDecision(enforce_same_term, differ, sandbox,
                                fnOut[i].cur, fnOut[i].orig, fnIn[i], FALSE)
            IN  CASE d = "post" -> fnOut' = [fnOut EXCEPT ![i].pc = "post"]
                  [] d = "noop" -> RaceEnds(i, "true")
                  [] OTHER -> RaceEnds(i, "false")
       ELSE RaceFails(i, o)
    /\ UNCHANGED <<orchVars, fnPc, fnIn>>

\* POST /sections/{child}/crosslist/{parent}: the platform moves the section
\* whatever course it is in, and keeps the first original course.
Race_Post(i, o, applied) ==
    /\ fnOut[i].pc = "post"
    /\ applied => MayApply(o)
    /\ IF applied
       THEN /\ secCourse' = fnIn[i]
            /\ secOrig' = IF secOrig = None THEN secCourse ELSE secOrig
       ELSE UNCHANGED remoteVars
    /\ IF Raised(o) = "none"
       THEN fnOut' = [fnOut EXCEPT ![i].pc = "verify", ![i].posted = TRUE]
       ELSE RaceFails(i, o)
    /\ UNCHANGED <<enforce_same_term, pc, callVars, cur, orig, pTerm, pSandbox,
                   termsDiffer, sandboxMode, upd, reqs, audit, ret, fnPc, fnIn>>

\* Post-move verification, then the updater (which moves no section and whose
\* exceptions are caught) and the success row.
Race_Verify(i, o) ==
    /\ fnOut[i].pc = "verify"
    /\ IF Raised(o) = "none"
       THEN RaceEnds(i, IF XLVerified(secCourse, fnIn[i]) THEN "true" ELSE "false")
       ELSE RaceFails(i, o)
    /\ UNCHANGED <<orchVars, fnPc, fnIn>>

NextRace ==
    \/ \E i \in Invocations, o \in ReqOutcomes : Race_FetchSection(i, o)
    \/ \E i \in Invocations, o \in ReqOutcomes, differ \in BOOLEAN, sandbox \in BOOLEAN :
           Race_FetchCourses(i, o, differ, sandbox)
    \/ \E i \in Invocations, o \in ReqOutcomes, applied \in BOOLEAN : Race_Post(i, o, applied)
    \/ \E i \in Invocations, o \in ReqOutcomes : Race_Verify(i, o)

SpecRace == InitRace /\ [][NextRace]_vars

\* ---------------- the cached lookups: fetch_active_terms, resolve_instructor
\* Both functions look in the cache first, ask the platform on a miss and
\* store what they computed.  fnIn names the function and, for
\* resolve_instructor, the kind of user_key; fnOut holds the cache entry of
\* the function's key (<<>> when absent, else <<value>>), whether the stored
\* value was computed from a failed request, and the running call's locals.
MaxCalls == 2
MaxMatches == 2

UserKeys == {"email", "sis", "id", "name"}

\* What get_paginated_data(enroll_path, max_pages=1) gives resolve_instructor:
\* teacher enrollments, an empty list from the platform, the empty list it
\* returns after a failed page, or an exception of the token provider.
EnrollmentOutcomes == {"teacher", "empty", "failed", "raised"}

LookupIdle == [pc |-> "idle", candidates |-> 0, raw_matches |-> 0, kept |-> 0,
               failed |-> FALSE, result |-> <<>>]

InitLookup ==
    /\ secCourse = 1
    /\ secOrig = None
    /\ enforce_same_term = TRUE
    /\ Idle
    /\ fnPc = "lookup"
    /\ fnIn \in {[fn |-> "fetch_active_terms", user_key |-> "none"]}
                \cup [fn : {"resolve_instructor"}, user_key : UserKeys]
    /\ fnOut = [cache |-> <<>>, from_failure |-> FALSE, calls |-> 0, call |-> LookupIdle]

\* `if cached:` - an empty term list is falsy, the instructor dict never is.
Truthy(value) == IF fnIn.fn = "fetch_active_terms" THEN value > 0 ELSE TRUE

\* The call returns value without touching the cache.
LookupReturns(value) ==
    fnOut' = [fnOut EXCEPT !.call = [@ EXCEPT !.pc = "done", !.result = <<value>>]]

\* cache_set(cache_key, value), then return value.
LookupStores(value, failed) ==
    fnOut' = [fnOut EXCEPT !.cache = <<value>>, !.from_failure = failed,
                           !.call = [@ EXCEPT !.pc = "done", !.failed = failed,
                                              !.result = <<value>>]]

\* cache_get at the top of both functions; fresh is false for an expired entry.
Lookup_Call(fresh) ==
    /\ fnOut.call.pc = "idle"
    /\ fnOut.calls < MaxCalls
    /\ IF fnOut.cache # <<>> /\ fresh /\ Truthy(fnOut.cache[1])
       THEN LookupReturns(fnOut.cache[1])
       ELSE fnOut' = [fnOut EXCEPT !.call = [LookupIdle EXCEPT !.pc = "search"],
                                   !.cache = IF fresh THEN @ ELSE <<>>,
                                   !.from_failure = IF fresh THEN @ ELSE FALSE]
    /\ UNCHANGED <<orchVars, fnPc, fnIn>>

\* fetch_active_terms: one GET; the term list is stored only when it answered.
Terms_Request(o, terms) ==
    /\ fnIn.fn = "fetch_active_terms"
    /\ fnOut.call.pc = "search"
    /\ CASE Raised(o) = "none" -> LookupStores(terms, FALSE)
         [] Raised(o) = "CanvasAPIError" -> LookupReturns(0)
         [] OTHER -> LookupReturns("raised")
    /\ UNCHANGED <<orchVars, fnPc, fnIn>>

\* resolve_instructor with its candidates collected: the enrollment checks
\* follow, or, without candidates, the result is stored at once.
ResolveFilters(n, raw, failed) ==
    IF n = 0
    THEN LookupStores([candidates |-> 0, raw_matches |-> raw], failed)
    ELSE fnOut' = [fnOut EXCEPT !.call = [@ EXCEPT !.pc = "enroll", !.candidates = n,
                                                  !.raw_matches = raw, !.failed = failed]]

\* The outer except CanvasAPIError: {"candidates": []}, nothing stored.
ResolveGivesUp == LookupReturns([candidates |-> 0])

\* resolve_instructor: the user search of the key's branch.
Resolve_Search(o, n) ==
    /\ fnIn.fn = "resolve_instructor"
    /\ fnOut.call.pc = "search"
    /\ fnIn.user_key \in {"sis", "id"} => n <= 1
    /\ CASE Raised(o) = "none" ->
              ResolveFilters(n, IF fnIn.user_key = "id" THEN 0 ELSE n, FALSE)
         [] Raised(o) = "CanvasAPIError" ->
              CASE fnIn.user_key = "email" ->
                       fnOut' = [fnOut EXCEPT !.call = [@ EXCEPT !.pc = "fallback"]]
                [] fnIn.user_key \in {"sis", "id"} -> ResolveFilters(0, 0, TRUE)
                [] OTHER -> ResolveGivesUp
         [] OTHER -> LookupReturns("raised")
    /\ UNCHANGED <<orchVars, fnPc, fnIn>>

\* The email branch's second search, by search_term.
Resolve_Fallback(o, n) ==
    /\ fnOut.call.pc = "fallback"
    /\ CASE Raised(o) = "none" -> ResolveFilters(n, 0, FALSE)
         [] Raised(o) = "CanvasAPIError" -> ResolveGivesUp
         [] OTHER -> LookupReturns("raised")
    /\ UNCHANGED <<orchVars, fnPc, fnIn>>

\* The teacher-enrollment check of the next candidate; after the last one the
\* result is stored.
Resolve_Enrollments(e) ==
    /\ fnOut.call.pc = "enroll"
    /\ LET c == fnOut.call
           kept == c.kept + (IF e = "teacher" THEN 1 ELSE 0)
           failed == c.failed \/ e = "failed"
       IN  IF e = "raised" THEN LookupReturns("raised")
           ELSE IF c.candidates = 1
           THEN LookupStores([candidates |-> kept, raw_matches |-> c.raw_matches], failed)
           ELSE fnOut' = [fnOut EXCEPT !.call = [@ EXCEPT !.candidates = @ - 1,
                                                         !.kept = kept, !.failed = failed]]
    /\ UNCHANGED <<orchVars, fnPc, fnIn>>

\* The caller has the result; it may call again.
Lookup_Done ==
    /\ fnOut.call.pc = "done"
    /\ fnOut' = [fnOut EXCEPT !.calls = @ + 1, !.call = LookupIdle]
    /\ UNCHANGED <<orchVars, fnPc, fnIn>>

NextLookup ==
    \/ \E fresh \in BOOLEAN : Lookup_Call(fresh)
    \/ \E o \in ReqOutcomes, terms \in 0..MaxMatches : Terms_Request(o, terms)
    \/ \E o \in ReqOutcomes, n \in 0..MaxMatches : Resolve_Search(o, n)
    \/ \E o \in ReqOutcomes, n \in 0..MaxMatches : Resolve_Fallback(o, n)
    \/ \E e \in EnrollmentOutcomes : Resolve_Enrollments(e)
    \/ Lookup_Done

SpecLookup == InitLookup /\ [][NextLookup]_vars

\* --------------------------------------------- check_course_permissions
\* One check_single_course task per requested course id runs in the pool;
\* the caller's loop waits for each future in submission order, 15 seconds at
\* most.  fnIn holds course_ids (distinct: the callers pass list(set(...))),
\* fnOut the tasks, the loop's position, permissions_map and the futures
\* whose wait timed out.
NumChecks == 3

\* What the GET of one course ends in: the course record with its permissions,
\* a CanvasAPIError, or any other exception (token provider, unusable body).
Answers ==
    [kind : {"ok"}, manage_courses : BOOLEAN, manage_sections : BOOLEAN]
    \cup [kind : {"api_error", "other_error"}, manage_courses : {FALSE}, manage_sections : {FALSE}]

NoAnswer == [kind |-> "none", manage_courses |-> FALSE, manage_sections |-> FALSE]

NoInfo == [present |-> FALSE, can_crosslist |-> FALSE, reason |-> ""]

InitPermissions ==
    /\ secCourse = 1
    /\ secOrig = None
    /\ enforce_same_term = TRUE
    /\ Idle
    /\ fnPc = "permissions"
    /\ \E n \in 1..NumChecks : fnIn = [course_ids |-> [t \in 1..n |-> t]]
    /\ fnOut = [task |-> [t \in DOMAIN fnIn.course_ids |-> [pc |-> "queued", answer |-> NoAnswer]],
                next |-> 1,
                permissions_map |-> [cid \in Range(fnIn.course_ids) |-> NoInfo],
                timed_out |-> {},
                returned |-> FALSE]

Checks == DOMAIN fnIn.course_ids

\* Variant: every answered check counts as granted.
CanCrosslistAlways(permissions) == TRUE

\* permissions.get('manage_courses', False) or permissions.get('manage_sections', False)
CanCrosslist(permissions) == permissions.manage_courses \/ permissions.manage_sections

Deny(reason) == [present |-> TRUE, can_crosslist |-> FALSE, reason |-> reason]

\* check_single_course: the info it returns, or raised for an exception other
\* than CanvasAPIError.
check_single_course(answer) ==
    CASE answer.kind = "ok" ->
             [raised |-> FALSE,
              info |-> [present |-> TRUE, can_crosslist |-> CanCrosslist(answer),
                        reason |-> IF CanCrosslist(answer) THEN "" ELSE "Insufficient permissions"]]
      [] answer.kind = "api_error" ->
             [raised |-> FALSE, info |-> Deny("Permission check failed")]
      [] OTHER -> [raised |-> TRUE, info |-> NoInfo]

\* A pool worker takes the next submitted task.
Perm_Start(t) ==
    /\ fnOut.task[t].pc = "queued"
    /\ \A u \in Checks : u < t => fnOut.task[u].pc # "queued"
    /\ Cardinality({u \in Checks : fnOut.task[u].pc = "running"}) < max_workers
    /\ fnOut' = [fnOut EXCEPT !.task[t].pc = "running"]
    /\ UNCHANGED <<orchVars, fnPc, fnIn>>

\* The task's GET ends; the task finishes (also after its wait timed out).
Perm_Answer(t, answer) ==
    /\ fnOut.task[t].pc = "running"
    /\ fnOut' = [fnOut EXCEPT !.task[t] = [pc |-> "finished", answer |-> answer]]
    /\ UNCHANGED <<orchVars, fnPc, fnIn>>

\* future.result(timeout=15) of the next future: the task's result, or the
\* default deny when the task raised or is not finished in time.
Perm_Collect ==
    /\ fnOut.next \in Checks
    /\ LET t == fnOut.next
           cid == fnIn.course_ids[t]
           finished == fnOut.task[t].pc = "finished"
           out == check_single_course(fnOut.task[t].answer)
           info == IF finished /\ ~out.raised THEN out.info
                   ELSE IF cid # None THEN Deny("Permission check timed out")
                   ELSE fnOut.permissions_map[cid]
       IN  fnOut' = [fnOut EXCEPT !.permissions_map[cid] = info,
                                  !.next = @ + 1,
                                  !.timed_out = IF finished THEN @ ELSE @ \cup {t}]
    /\ UNCHANGED <<orchVars, fnPc, fnIn>>

\* Leaving the with block waits for every task; then permissions_map is returned.
Perm_Return ==
    /\ ~fnOut.returned
    /\ fnOut.next \notin Checks
    /\ \A t \in Checks : fnOut.task[t].pc = "finished"
    /\ fnOut' = [fnOut EXCEPT !.returned = TRUE]
    /\ UNCHANGED <<orchVars, fnPc, fnIn>>

NextPermissions ==
    \/ \E t \in Checks : Perm_Start(t)
    \/ \E t \in Checks, answer \in Answers : Perm_Answer(t, answer)
    \/ Perm_Collect
    \/ Perm_Return

SpecPermissions == InitPermissions /\ [][NextPermissions]_vars

\* cross_list_section stops at its already-cross-listed guard for a section
\* (c, o) and a parent p other than c, when no earlier check stops it.
XLGuardFires(c, o, p) ==
    XLDecision(FALSE, FALSE, FALSE, c, o, p, FALSE) = "already_cross_listed"

\* un_cross_list_section goes on to the removal for a section with original
\* course o.
UXIssuesRemoval(o) == UXDecision(o, FALSE) = "delete"

\* C14 (as stated): for the section's state (current course, original course)
\* the normalizer's flag, the listing's flag (for a payload without
\* cross_listing_id), cross_list's already-cross-listed guard and
\* un_cross_list's decision to send the removal all equal "the original course
\* is non-null and differs from the current course".
C14_OneCrossListedDefinition ==
    LET crossListed == secOrig # None /\ secOrig # secCourse
    IN  /\ is_cross_listed(secOrig, secCourse) = crossListed
        /\ ListingCrossListed(FALSE, secOrig, secCourse) = crossListed
        /\ \A p \in Courses \ {secCourse} : XLGuardFires(secCourse, secOrig, p) = crossListed
        /\ UXIssuesRemoval(secOrig) = crossListed


\* One of the conditions the specification lists as blocking holds.
Blocking(cfg, p, c) ==
    \/ p.cross_listed
    \/ c.cross_listed
    \/ p.course_id = c.course_id
    \/ cfg.require_parent_unpublished /\ p.published
    \/ ~c.published
    \/ cfg.enforce_same_term /\ TermsDiffer(p.term, c.term)

\* C15 (as stated): validate returns a non-empty errors list exactly when a
\* blocking condition holds (parent or child cross-listed, same course, parent
\* published under require_parent_unpublished, child unpublished, terms differ
\* under enforce_same_term); student count, teachers, sub-account and course
\* number add no error.
C15_ErrorsIffBlockingCondition ==
    fnPc = "done" => ((fnOut # <<>>) <=> Blocking(fnIn.cfg, fnIn.parent, fnIn.child))

\* The child raises no finding of its own against parent p under cfg.
OtherwiseValidChild(cfg, p, c) ==
    /\ ~c.cross_listed /\ c.published /\ c.course_id # p.course_id
    /\ ~(p.number # None /\ c.number # None /\ p.number # c.number)
    /\ ~(cfg.enforce_same_term /\ TermsDiffer(p.term, c.term))
    /\ ~(cfg.enforce_same_subaccount /\ p.subaccount # c.subaccount)
    /\ ~TeachersDisjoint(p, c)

\* The case of C16: both parent policies set, the parent published with zero
\* students and not cross-listed, the child otherwise valid.
PublishedParentWithoutStudents ==
    /\ fnIn.cfg.require_parent_unpublished /\ fnIn.cfg.forbid_parent_with_students
    /\ fnIn.parent.published /\ fnIn.parent.total_students = 0
    /\ ~fnIn.parent.cross_listed
    /\ OtherwiseValidChild(fnIn.cfg, fnIn.parent, fnIn.child)

C17_TeachersFindingIsNoError ==
    fnPc = "done" =>
        /\ "Teachers must match between parent and child courses" \in Range(fnOut)
           => (fnIn.parent.teachers # {} /\ fnIn.child.teachers # {})
        /\ "Teachers must match between parent and child courses" \notin Range(fnOut)

\* Vocabulary over the normalizer's input and output.
OutIds == {fnOut[i].course_id : i \in DOMAIN fnOut}
IsFirst(i) == \A j \in 1..(i - 1) : fnIn[j].id # fnIn[i].id
SectionIds(sections) == {sections[k].id : k \in DOMAIN sections}

\* C18: the output holds at most one artifact per course id, built from the
\* first payload with that id, and no section id occurs twice in the output,
\* under one course or under several.
C18_OneArtifactPerCourseOneCoursePerSection ==
    fnPc = "done" =>
        /\ \A i, j \in DOMAIN fnOut : fnOut[i].course_id = fnOut[j].course_id => i = j
        /\ \A i \in DOMAIN fnOut :
              \E f \in DOMAIN fnIn :
                  /\ IsFirst(f) /\ fnIn[f].id = fnOut[i].course_id
                  /\ fnOut[i].name = fnIn[f].name
                  /\ SectionIds(fnOut[i].sections) \subseteq SectionIds(fnIn[f].sections)
        /\ \A i, j \in DOMAIN fnOut :
              \A k \in DOMAIN fnOut[i].sections, l \in DOMAIN fnOut[j].sections :
                  fnOut[i].sections[k].id = fnOut[j].sections[l].id => (i = j /\ k = l)

\* C18 witness: two payloads with the same id and different section lists,
\* the second one with a section the first lacks, gave one artifact.
C18_DuplicatePayloadSeen ==
    /\ fnPc = "done" /\ Len(fnIn) = 2 /\ fnIn[1].id = fnIn[2].id
    /\ ~(SectionIds(fnIn[2].sections) \subseteq SectionIds(fnIn[1].sections))
    /\ Len(fnOut) = 1 /\ fnOut[1].name = 1

\* A section belongs elsewhere, in the specification's words: its original
\* course is the course iterated and its current course is another one.
BelongsElsewhere(section, course_id) ==
    /\ section.nonxlist_course_id # None
    /\ section.nonxlist_course_id = course_id
    /\ SectionCourse(section, course_id) # course_id

AllBelongElsewhere(i) ==
    \A k \in DOMAIN fnIn[i].sections : BelongsElsewhere(fnIn[i].sections[k], fnIn[i].id)

\* C19 (as stated): a course is absent from the output exactly when every one
\* of its sections belongs elsewhere.
C19_ExcludedIffAllBelongElsewhere ==
    fnPc = "done" =>
        \A i \in DOMAIN fnIn :
            IsFirst(i) => ((fnIn[i].id \notin OutIds) <=> AllBelongElsewhere(i))

\* Section ids attributed to a course before payload i is processed.
TakenBefore(i) ==
    UNION {{fnIn[j].sections[k].id : k \in {k \in DOMAIN fnIn[j].sections :
                                               SectionCourse(fnIn[j].sections[k], fnIn[j].id)
                                                   = fnIn[j].id}}
           : j \in {j \in 1..(i - 1) : IsFirst(j)}}

\* C19 (amended): a course is absent from the output exactly when the first
\* payload with its id has no section whose current course is that course
\* and whose id was not attributed to an earlier course; every course all of
\* whose sections belong elsewhere is absent.
C19_ExcludedIffNoOwnSection ==
    fnPc = "done" =>
        \A i \in DOMAIN fnIn :
            IsFirst(i) =>
                /\ (fnIn[i].id \notin OutIds) <=>
                       ~\E k \in DOMAIN fnIn[i].sections :
                           /\ SectionCourse(fnIn[i].sections[k], fnIn[i].id) = fnIn[i].id
                           /\ fnIn[i].sections[k].id \notin TakenBefore(i)
                /\ AllBelongElsewhere(i) => fnIn[i].id \notin OutIds

\* C19 witness: a course whose only section has the course as original course
\* and another course as current course is absent from the output.
C19_OrphanCourseSeen ==
    /\ fnPc = "done" /\ Len(fnIn) = 1 /\ Len(fnIn[1].sections) = 1
    /\ fnIn[1].sections[1].nonxlist_course_id = fnIn[1].id
    /\ fnIn[1].sections[1].course_id \notin {None, fnIn[1].id}
    /\ fnOut = <<>>

\* The items of the first n successfully fetched pages, in order.
RECURSIVE ItemsOfFirst(_, _)
ItemsOfFirst(fetched, n) ==
    IF n = 0 THEN <<>> ELSE ItemsOfFirst(fetched, n - 1) \o fetched[n].data

\* Fetched page k is the last thing the paginator did: it returned right after
\* it, with the items of the pages before it.
StoppedAt(k) ==
    /\ k = Len(fnOut.fetched)
    /\ fnOut.result = "returned"
    /\ Len(fnOut.requests) = fnOut.fetched[k].req
    /\ fnOut.all_data = ItemsOfFirst(fnOut.fetched, k - 1)

\* C20 (as stated): when the set of item ids of a fetched page equals that of
\* a page fetched before, the paginator stops at once and returns only the
\* items accumulated before the repeated page.
C20_StopsOnRepeatedIdSet ==
    \A k \in DOMAIN fnOut.fetched :
        (\E j \in 1..(k - 1) :
            Range(fnOut.fetched[j].data) = Range(fnOut.fetched[k].data))
        => StoppedAt(k)

\* C20 (amended): when the sorted list of item ids of a fetched page equals
\* that of a page fetched before, the paginator stops at once and returns only
\* the items accumulated before the repeated page; with equal lists on pages 1
\* and 2 it returns page 1's items and never requests page 3.
C20_StopsOnRepeatedIdList ==
    /\ \A k \in DOMAIN fnOut.fetched :
          (\E j \in 1..(k - 1) :
              SortedIds(fnOut.fetched[j].data) = SortedIds(fnOut.fetched[k].data))
          => StoppedAt(k)
    /\ (/\ Len(fnOut.fetched) >= 2
        /\ SortedIds(fnOut.fetched[1].data) = SortedIds(fnOut.fetched[2].data))
       => (/\ fnOut.all_data = fnOut.fetched[1].data
           /\ \A i \in DOMAIN fnOut.requests : fnOut.requests[i] # 3)

\* C20 witness: page 2 came back with page 1's ids in another order; the
\* paginator returned page 1's items after two requests.
C20_RepeatedPageSeen ==
    /\ fnPc = "done" /\ fnOut.result = "returned"
    /\ Len(fnOut.fetched) = 2
    /\ fnOut.fetched[1].data = <<1, 2>> /\ fnOut.fetched[2].data = <<2, 1>>
    /\ fnOut.all_data = <<1, 2>> /\ fnOut.requests = <<1, 2>>

\* The requests made for page p, and those of them that failed.
RequestsFor(p) == {i \in DOMAIN fnOut.requests : fnOut.requests[i] = p}
FailedFor(p) == {i \in RequestsFor(p) : fnOut.statuses[i] # "ok"}

\* C21: page k+1 is requested only after page k was fetched; the items held
\* are those of pages 1..k, in order, for some k; and once every attempt on a
\* page has failed, the paginator has returned and asked for no later page.
C21_NoGapInPages ==
    /\ \A i \in DOMAIN fnOut.requests :
          fnOut.requests[i] > 1 =>
              \E j \in 1..(i - 1) : /\ fnOut.requests[j] = fnOut.requests[i] - 1
                                    /\ fnOut.statuses[j] = "ok"
    /\ \E k \in 0..Len(fnOut.fetched) :
          /\ fnOut.all_data = ItemsOfFirst(fnOut.fetched, k)
          /\ \A n \in 1..k : fnOut.requests[fnOut.fetched[n].req] = n
    /\ \A p \in Range(fnOut.requests) :
          (Cardinality(FailedFor(p)) = fnIn.max_retries /\ "value_error" \notin Range(fnOut.statuses))
          => (/\ fnOut.result = "returned"
              /\ \A i \in DOMAIN fnOut.requests : fnOut.requests[i] <= p)

\* C21 witness: page 1 was fetched, both attempts on page 2 failed, and the
\* paginator returned page 1's items.
C21_RetriesExhaustedSeen ==
    /\ fnPc = "done" /\ fnOut.result = "returned"
    /\ fnIn.max_retries = 2
    /\ fnOut.requests = <<1, 2, 2>>
    /\ fnOut.statuses = <<"ok", "error", "error">>
    /\ fnOut.all_data = fnOut.fetched[1].data

\* C22: a 401 is the paginator's last request, and it returns the items of
\* the pages fetched before.
C22_UnauthorizedAborts ==
    \A i \in DOMAIN fnOut.statuses :
        fnOut.statuses[i] = "unauthorized" =>
            /\ i = Len(fnOut.requests)
            /\ fnOut.result = "returned"
            /\ fnOut.all_data = ItemsOfFirst(fnOut.fetched, Len(fnOut.fetched))
            /\ \A n \in DOMAIN fnOut.fetched : fnOut.fetched[n].req < i

\* C22 witness: page 1 was fetched, page 2 answered 401 with attempts left,
\* and the paginator returned page 1's items without another request.
C22_UnauthorizedSeen ==
    /\ fnPc = "done" /\ fnOut.result = "returned"
    /\ fnIn.max_retries = 2
    /\ fnOut.requests = <<1, 2>>
    /\ fnOut.statuses = <<"ok", "unauthorized">>
    /\ fnOut.all_data = <<1, 2>>

\* C23: a page request answered 403 is not sent again, and the paginator
\* ends by raising to its caller.
C23_ForbiddenNeverResent ==
    \A i \in DOMAIN fnOut.statuses :
        fnOut.statuses[i] = "forbidden" =>
            /\ \A j \in DOMAIN fnOut.requests : j > i => fnOut.requests[j] # fnOut.requests[i]
            /\ fnPc = "done" => fnOut.result = "raised"

\* C29: the paginator never hangs (it has returned or raised, or it has a
\* step that changes its state), it makes at most max_retries attempts on a
\* page, and it requests at most max_pages_absolute distinct pages.
C29_PaginateTerminates ==
    /\ fnPc = "done" \/ ENABLED <<NextPaginate>>_vars
    /\ \A p \in Range(fnOut.requests) : Cardinality(RequestsFor(p)) <= fnIn.max_retries
    /\ Cardinality(Range(fnOut.requests)) <= max_pages_absolute

\* The blocks of a syllabus: the places of its opening markers.
BlockStarts(text) == {i \in DOMAIN text : text[i] = "<S>"}

\* The list entries of a syllabus, each from its "<LI>" to its "</LI>".
ListEntries(text) ==
    [i \in {k \in DOMAIN text : text[k] = "<LI>"} |->
        SubSeq(text, i, IndexAfter(text, "</LI>", i))]

\* C24: when the updater runs twice in a row with every request answered,
\* on a parent whose syllabus held no marker before, the syllabus after the
\* second run equals the syllabus after the first: one block, no list entry
\* twice.
C24_SecondRunLeavesSyllabusAlone ==
    (/\ Len(fnOut.runs) >= 2
     /\ fnOut.runs[1].clean /\ fnOut.runs[2].clean
     /\ "<S>" \notin Range(fnOut.runs[1].before.syllabus_body))
    => LET first == fnOut.runs[1].after.syllabus_body
           second == fnOut.runs[2].after.syllabus_body
       IN  /\ ~fnOut.runs[2].raised
           /\ second = first
           /\ Cardinality(BlockStarts(second)) = 1
           /\ \A i, j \in DOMAIN ListEntries(second) :
                  ListEntries(second)[i] = ListEntries(second)[j] => i = j

\* The title the words "<parent code>: <parent name> and
\* <child code>: <child name>" describe.
TitleOfBothCourses(code, name, child_code, child_name) ==
    code \o <<":", " ">> \o name \o <<" ", "a", "n", "d", " ">>
         \o child_code \o <<":", " ">> \o child_name

\* C25: after a run of the updater with every request answered, on a parent
\* that took in one child section (of course 2), the parent's title is
\* "<parent code>: <parent name> and <child code>: <child name>".
C25_TitleNamesBothCourses ==
    (/\ Len(fnOut.runs) >= 1
     /\ fnOut.runs[1].clean
     /\ Len(fnIn.sections) = 2 /\ fnIn.sections[2].nonxlist_course_id = 2)
    => fnOut.runs[1].after.name
           = TitleOfBothCourses(fnIn.course_code, fnOut.runs[1].before.name,
                                ChildCode(2), fnIn.child_name[2])

\* C30: every artifact of the normalizer's output has a section, and every
\* section of it is listed under its current course; a section that moved is
\* not listed under the course it came from.
C30_SectionsUnderCurrentCourse ==
    fnPc = "done" =>
        \A i \in DOMAIN fnOut :
            /\ fnOut[i].sections # <<>>
            /\ \A k \in DOMAIN fnOut[i].sections :
                  LET section == fnOut[i].sections[k]
                  IN  /\ section.course_id = fnOut[i].course_id
                      /\ section.cross_listed => section.nonxlist_course_id # fnOut[i].course_id
                      /\ \E j \in DOMAIN fnIn : \E l \in DOMAIN fnIn[j].sections :
                            /\ fnIn[j].id = fnOut[i].course_id
                            /\ fnIn[j].sections[l].id = section.id
                            /\ fnIn[j].sections[l].course_id \in {None, fnOut[i].course_id}

\* C30 witness: section 2 moved from course 1 to course 2 and came in both
\* courses' payloads; it is listed under course 2 alone, and course 1 keeps
\* its section 1.
C30_MovedSectionSeen ==
    /\ fnPc = "done"
    /\ Len(fnIn) = 2 /\ fnIn[1].id = 1 /\ fnIn[2].id = 2
    /\ fnIn[1].sections = <<RawSection(1, <<1, None>>), RawSection(2, <<2, 1>>)>>
    /\ fnIn[2].sections = <<RawSection(2, <<2, 1>>)>>
    /\ Len(fnOut) = 2
    /\ SectionIds(fnOut[1].sections) = {1}
    /\ SectionIds(fnOut[2].sections) = {2}
    /\ fnOut[2].sections[1].cross_listed

\* C26: with one caller, a get that directly follows a set of the same key
\* with ttl 0 returns nothing.
C26_ZeroTtlExpiresAtOnce ==
    fnIn.callers = 1 =>
        \A j \in 2..Len(fnOut.log) :
            (/\ fnOut.log[j].op = "get"
             /\ fnOut.log[j - 1].op = "set"
             /\ fnOut.log[j - 1].key = fnOut.log[j].key
             /\ fnOut.log[j - 1].ttl = 0)
            => fnOut.log[j].result = None

\* C27: every write of cache.json is a rename of a complete temporary file,
\* and no caller reads a partially written file.
C27_WritesAreAtomic ==
    /\ fnOut.writes \subseteq {"replace"}
    /\ ~fnOut.partial_read

\* C28 (as stated): at most 3 requests of a pool are in flight at once, every
\* task has its own client, and every request of a pool worker is a GET.
C28_WorkersOnlyGet ==
    /\ Cardinality(InFlight) <= 3
    /\ \A a, b \in fnOut.requests : a.client = b.client => a.task = b.task
    /\ \A a \in fnOut.requests : a.method = "GET"

\* C28 (amended): at most 3 requests of a pool are in flight at once, every
\* task has its own client, and a pool worker sends GETs to the course API and
\* nothing else but a POST to the OAuth token endpoint; no DELETE, no PUT.
C28_WorkersGetAndFetchTokens ==
    /\ Cardinality(InFlight) <= 3
    /\ \A a, b \in fnOut.requests : a.client = b.client => a.task = b.task
    /\ \A a \in fnOut.requests :
          \/ a.method = "GET" /\ a.path = "/api/v1/courses"
          \/ a.method = "POST" /\ a.path = "/login/oauth2/token"

\* C28 witness: three requests are in flight, one of them a POST to the
\* token endpoint, and a fourth task waits for a worker.
C28_FullPoolSeen ==
    /\ Cardinality(InFlight) = 3
    /\ \E t \in Tasks : fnOut.task[t].pc = "queued"
    /\ \E t \in InFlight : fnOut.task[t].pc = "token_post"

\* C31: every row of the audit log of a cross-list or un-cross-list operation
\* has action cross_list or un_cross_list and result success or error,
\* whether the orchestrator or a web route wrote it.
C31_AuditVocabulary ==
    \A i \in DOMAIN audit :
        /\ audit[i].action \in {"cross_list", "un_cross_list"}
        /\ audit[i].result \in {"success", "error"}

\* The rules violated among findings, by their place in validate.
ViolatedRules(findings) == {k \in DOMAIN findings : findings[k].violated}

\* The place in validate of the rule a message belongs to.
RuleOf(findings, message) == CHOOSE k \in DOMAIN findings : findings[k].message = message

C33_CourseCodeCombined ==
    (/\ Len(fnOut.runs) >= 1
     /\ fnOut.runs[1].clean
     /\ \E i \in DOMAIN fnIn.sections : fnIn.sections[i].nonxlist_course_id = 2)
    => \E i \in DOMAIN fnOut.runs[1].puts :
           /\ "course_code" \in fnOut.runs[1].puts[i].fields
           /\ fnOut.runs[1].puts[i].applied

\* C34: when the updater runs twice in a row with every request answered, the
\* second run computes the title of the first, sends no name update and
\* leaves the parent's name as the first run left it.
C34_SecondRunLeavesNameAlone ==
    (/\ Len(fnOut.runs) >= 2
     /\ fnOut.runs[1].clean /\ fnOut.runs[2].clean
     /\ ~fnOut.runs[1].raised /\ ~fnOut.runs[2].raised)
    => /\ fnOut.runs[2].new_course_name = fnOut.runs[1].new_course_name
       /\ fnOut.runs[2].after.name = fnOut.runs[1].after.name
       /\ \A i \in DOMAIN fnOut.runs[2].puts : "name" \notin fnOut.runs[2].puts[i].fields

\* C35: when a cross_list's audit row reports that the updater applied
\* nothing (no new title, no section ids, syllabus not changed), no PUT of
\* that updater run was applied to the course.
C35_NothingAppliedMeansNoPut ==
    (/\ Returned /\ action = "cross_list" /\ ret = "true"
     /\ OneAuditRow("success")
     /\ audit[1].new_parent_course_title = ""
     /\ audit[1].child_section_ids = <<>>
     /\ audit[1].syllabus_updated = "No")
    => \A i \in DOMAIN reqs : ~(reqs[i].method = "PUT" /\ reqs[i].status = "ok")

\* C36: on a section that starts out not cross-listed, once a verified
\* cross_list into parent P has been followed by a verified un_cross_list, the
\* section is back in the course it started in with no original-course id, and
\* a further cross_list into P is neither a no-op nor rejected as already
\* cross-listed.
C36_RoundTripRestores ==
    fnOut.stage = "restored" =>
        /\ pc = "idle" => (secCourse = fnIn.original /\ secOrig = None)
        /\ (Returned /\ action = "cross_list" /\ parent = fnOut.parent /\ ret # "raised")
           => \A i \in DOMAIN audit :
                  audit[i].message.kind \notin {"noop", "already_cross_listed"}

C36_SecondCrossListVerifiedSeen ==
    /\ fnOut.stage = "restored"
    /\ Returned /\ CrossListVerified /\ parent = fnOut.parent
    /\ secCourse = parent /\ secOrig = fnIn.original

\* C37 (as stated): when two cross_list_section invocations for the same
\* section with different parents have both ended, at most one returned true,
\* and if one did, the section's course is the parent of an invocation that
\* returned true.
C37_AtMostOneSucceeds ==
    (\A i \in Invocations : fnOut[i].pc = "done")
    => /\ ~(fnOut[1].ret = "true" /\ fnOut[2].ret = "true")
       /\ (\E i \in Invocations : fnOut[i].ret = "true")
          => \E i \in Invocations : fnOut[i].ret = "true" /\ secCourse = fnIn[i]

\* C38 (as stated): whatever fetch_active_terms or resolve_instructor has
\* stored in the cache was computed from answered requests only, never from a
\* request that failed.
C38_FailuresNeverCached == fnOut.cache # <<>> => ~fnOut.from_failure

\* The course record of check t reported manage_courses or manage_sections.
ReportedGranted(t) ==
    /\ fnOut.task[t].answer.kind = "ok"
    /\ fnOut.task[t].answer.manage_courses \/ fnOut.task[t].answer.manage_sections

\* C39: the map check_course_permissions returns has an entry for every
\* requested course id; an entry says can_crosslist only when the course
\* record reported manage_courses or manage_sections and the wait for it did
\* not time out; every check that failed or timed out has can_crosslist false.
C39_PermissionsFailClosed ==
    fnOut.returned =>
        \A t \in Checks :
            LET entry == fnOut.permissions_map[fnIn.course_ids[t]]
            IN  /\ entry.present
                /\ entry.can_crosslist => (ReportedGranted(t) /\ t \notin fnOut.timed_out)
                /\ (fnOut.task[t].answer.kind # "ok" \/ t \in fnOut.timed_out)
                   => ~entry.can_crosslist

C39_GrantedFailedAndTimedOutSeen ==
    /\ fnOut.returned
    /\ \E t \in Checks : fnOut.permissions_map[fnIn.course_ids[t]].can_crosslist
    /\ \E t \in Checks : fnOut.task[t].answer.kind = "other_error" /\ t \notin fnOut.timed_out
    /\ \E t \in Checks : t \in fnOut.timed_out /\ ReportedGranted(t)

====
